---- MODULE Spec2Model ----
(***************************************************************************)
(* Model of the Open Remote ID Parser core: the ASTM F3411 / Wi-Fi /       *)
(* ASD-STAN / CN-RID decoders as operators over byte sequences, the        *)
(* RemoteIDParser facade and the SessionManager as state machines.         *)
(*                                                                         *)
(* Representation of C++ values:                                           *)
(*   - a byte buffer is a sequence of 0..255, C++ index i is At(p, i);     *)
(*   - a std::string is the sequence of its character codes;               *)
(*   - fixed-point floats are kept as scaled integers: latitude/longitude  *)
(*     in 1e-7 degree, altitudes in 0.5 m, horizontal speed in 0.25 m/s,   *)
(*     vertical speed in 0.5 m/s; NaN is the string "NaN";                 *)
(*   - steady_clock time points and durations are naturals (ms ticks).     *)
(***************************************************************************)
EXTENDS Integers, Sequences, FiniteSets, TLC

\* ---------------------------------------------------------------------
\* Program constants
\* ---------------------------------------------------------------------
MESSAGE_SIZE == 25
BASIC_ID_LENGTH == 20
SELF_ID_LENGTH == 23
OPERATOR_ID_LENGTH == 20
ODID_AD_TYPE == 22
ODID_SERVICE_UUID == 65530
EXT_ADV_MIN_HEADER == 2

\* enum ProtocolType
PROTO_UNKNOWN == 0
PROTO_ASTM_F3411 == 1
PROTO_ASD_STAN == 2
PROTO_CN_RID == 3

\* enum TransportType
TR_UNKNOWN == 0
TR_BT_LEGACY == 1
TR_BT_EXTENDED == 2
TR_WIFI_BEACON == 3
TR_WIFI_NAN == 4

\* enum astm::MessageType
MT_BASIC_ID == 0
MT_LOCATION == 1
MT_AUTH == 2
MT_SELF_ID == 3
MT_SYSTEM == 4
MT_OPERATOR_ID == 5
MT_MESSAGE_PACK == 15

\* Wi-Fi constants
WIFI_OUI_FA == <<250, 11, 188>>
WIFI_VENDOR_TYPE == 13
NAN_SERVICE_ID == <<136, 105, 25, 157, 146, 9>>
IE_VENDOR_SPECIFIC == 221
MIN_MGMT_HEADER == 24
MIN_BEACON_BODY == 12
FC_SUBTYPE_BEACON == 128
FC_SUBTYPE_PROBE_RESP == 80
FC_SUBTYPE_ACTION == 208

\* ---------------------------------------------------------------------
\* Byte-level helpers
\* ---------------------------------------------------------------------
\* payload[i] with the C++ zero-based index
At(p, i) == p[i + 1]

\* the bytes data[off .. off+n-1]
Bytes(p, off, n) == SubSeq(p, off + 1, off + n)

\* utils::readLE16
readLE16(p, off) == At(p, off) + 256 * At(p, off + 1)

\* utils::readLE32Signed: the top byte carries the sign
readLE32Signed(p, off) ==
    LET b3 == At(p, off + 3)
        hi == IF b3 >= 128 THEN b3 - 256 ELSE b3
    IN  At(p, off) + 256 * At(p, off + 1) + 65536 * At(p, off + 2)
          + 16777216 * hi

\* utils::readLE32 (unsigned): kept as <<high 16 bits, low 16 bits>>
readLE32(p, off) == << readLE16(p, off + 2), readLE16(p, off) >>

\* static_cast<int8_t>(byte)
AsInt8(b) == IF b >= 128 THEN b - 256 ELSE b

\* std::string(char buf[]) : the characters before the first NUL
RECURSIVE CStr(_)
CStr(s) ==
    IF s = <<>> \/ Head(s) = 0 THEN <<>> ELSE <<Head(s)>> \o CStr(Tail(s))

\* while (!s.empty() && (s.back() == ' ' || s.back() == '\0')) s.pop_back();
RECURSIVE TrimRight(_)
TrimRight(s) ==
    IF s # <<>> /\ (s[Len(s)] = 32 \/ s[Len(s)] = 0)
    THEN TrimRight(SubSeq(s, 1, Len(s) - 1))
    ELSE s

\* ---------------------------------------------------------------------
\* Data model (types.h): default-constructed records
\* ---------------------------------------------------------------------
DefaultLocation ==
    [valid |-> FALSE, latitude |-> 0, longitude |-> 0, altitude_baro |-> 0,
     altitude_geo |-> 0, height |-> 0, height_ref |-> 0,
     speed_horizontal |-> 0, speed_vertical |-> 0, direction |-> 0,
     h_accuracy |-> 0, v_accuracy |-> 0, speed_accuracy |-> 0,
     status |-> 0, timestamp_offset |-> 0]

DefaultSystem ==
    [valid |-> FALSE, location_type |-> 0, operator_latitude |-> 0,
     operator_longitude |-> 0, area_ceiling |-> 0, area_floor |-> 0,
     area_count |-> 1, area_radius |-> 0, timestamp |-> <<0, 0>>]

DefaultSelfId == [valid |-> FALSE, description_type |-> 0, description |-> <<>>]

DefaultOperatorId == [valid |-> FALSE, id_type |-> 0, id |-> <<>>]

\* UAVObject() : last_seen(steady_clock::now())
NewUAVObject(t) ==
    [id |-> <<>>, id_type |-> 0, uav_type |-> 0,
     protocol |-> PROTO_UNKNOWN, transport |-> TR_UNKNOWN,
     rssi |-> 0, last_seen |-> t,
     location |-> DefaultLocation, system |-> DefaultSystem,
     self_id |-> DefaultSelfId, operator_id |-> DefaultOperatorId,
     auth_data |-> <<>>, message_count |-> 0]

\* ---------------------------------------------------------------------
\* ASTM F3411 field decoders
\* ---------------------------------------------------------------------
decodeLatitude(encoded) == encoded

decodeLongitude(encoded) == encoded

\* (encoded * 0.5) - 1000 m, in units of 0.5 m; raw 0 is the literal 0 m
decodeAltitude(encoded) == IF encoded = 0 THEN 0 ELSE encoded - 2000

\* in units of 0.25 m/s; SPEED_OFFSET_HIGH = 255 * 0.25
decodeSpeed(encoded, multiplier) ==
    IF encoded = 255 THEN "NaN"
    ELSE IF multiplier THEN 3 * encoded + 255
    ELSE encoded

\* in units of 0.5 m/s
decodeVerticalSpeed(encoded) == IF encoded = 63 THEN "NaN" ELSE encoded

\* the argument is a uint8_t, so the test encoded > 360 is never true
decodeDirection(encoded) == IF encoded > 360 THEN "NaN" ELSE encoded

decodeBasicID(data, uav) ==
    [uav EXCEPT !.id_type = (At(data, 1) \div 16) % 16,
                !.uav_type = At(data, 1) % 16,
                !.id = TrimRight(CStr(Bytes(data, 2, BASIC_ID_LENGTH)))]

decodeLocation(data, uav) ==
    LET status_byte == At(data, 1)
        loc == [valid |-> TRUE,
                status |-> (status_byte \div 16) % 16,
                height_ref |-> (status_byte \div 4) % 2,
                direction |-> decodeDirection(At(data, 2)),
                speed_horizontal |-> decodeSpeed(At(data, 3), status_byte % 2 # 0),
                speed_vertical |-> decodeVerticalSpeed(AsInt8(At(data, 4))),
                latitude |-> decodeLatitude(readLE32Signed(data, 5)),
                longitude |-> decodeLongitude(readLE32Signed(data, 9)),
                altitude_baro |-> decodeAltitude(readLE16(data, 13)),
                altitude_geo |-> decodeAltitude(readLE16(data, 15)),
                height |-> decodeAltitude(readLE16(data, 17)),
                h_accuracy |-> (At(data, 19) \div 16) % 16,
                v_accuracy |-> At(data, 19) % 16,
                speed_accuracy |-> At(data, 20) % 16,
                timestamp_offset |-> readLE16(data, 21)]
    IN  [uav EXCEPT !.location = loc]

decodeAuth(data, uav) ==
    [uav EXCEPT !.auth_data = Bytes(data, 1, MESSAGE_SIZE - 1)]

decodeSelfID(data, uav) ==
    [uav EXCEPT !.self_id =
        [valid |-> TRUE, description_type |-> At(data, 1),
         description |-> TrimRight(CStr(Bytes(data, 2, SELF_ID_LENGTH)))]]

decodeSystem(data, uav) ==
    [uav EXCEPT !.system =
        [valid |-> TRUE,
         location_type |-> (At(data, 1) \div 16) % 4,
         operator_latitude |-> decodeLatitude(readLE32Signed(data, 2)),
         operator_longitude |-> decodeLongitude(readLE32Signed(data, 6)),
         area_count |-> readLE16(data, 10),
         area_radius |-> At(data, 12) * 10,
         area_ceiling |-> decodeAltitude(readLE16(data, 13)),
         area_floor |-> decodeAltitude(readLE16(data, 15)),
         timestamp |-> readLE32(data, 17)]]

decodeOperatorID(data, uav) ==
    [uav EXCEPT !.operator_id =
        [valid |-> TRUE, id_type |-> At(data, 1),
         id |-> TrimRight(CStr(Bytes(data, 2, OPERATOR_ID_LENGTH)))]]

\* ---------------------------------------------------------------------
\* ASTM F3411 message decoder.  A decode step returns
\*   [success, type, error, uav]  (DecodeResult plus the UAVObject& argument)
\* data is the buffer from the message's first byte on, len the length the
\* caller passes.
\* ---------------------------------------------------------------------
RECURSIVE decodeMessage(_, _, _)
RECURSIVE PackLoop(_, _, _, _, _, _)

\* for (i = 0; i < msg_count && offset + MESSAGE_SIZE <= len; i++)
\*     decodeMessage(data + offset, MESSAGE_SIZE, uav);   result ignored
PackLoop(data, len, i, msg_count, offset, uav) ==
    IF i < msg_count /\ offset + MESSAGE_SIZE <= len
    THEN PackLoop(data, len, i + 1, msg_count, offset + MESSAGE_SIZE,
                  decodeMessage(Bytes(data, offset, MESSAGE_SIZE),
                                MESSAGE_SIZE, uav).uav)
    ELSE uav

\* decodeMessagePack without the test of the declared message size
decodeMessagePack_NoSizeCheck(data, len, uav) ==
    IF len < 2 THEN [ok |-> FALSE, uav |-> uav]
    ELSE [ok |-> TRUE,
          uav |-> PackLoop(data, len, 0, At(data, 1) % 16, 2, uav)]

\* returns [ok, uav]
decodeMessagePack(data, len, uav) ==
    IF len < 2 THEN [ok |-> FALSE, uav |-> uav]
    ELSE IF ((At(data, 1) \div 16) % 16) + 1 # MESSAGE_SIZE
    THEN [ok |-> FALSE, uav |-> uav]
    ELSE [ok |-> TRUE,
          uav |-> PackLoop(data, len, 0, At(data, 1) % 16, 2, uav)]

\* the end of decodeMessage: decode_ok and the UAVObject the type decoder
\* left, r = [ok, uav]
MessageResult(msg_type, r) ==
    IF r.ok
    THEN [success |-> TRUE, type |-> msg_type, error |-> "",
          uav |-> [r.uav EXCEPT !.message_count = @ + 1]]
    ELSE [success |-> FALSE, type |-> msg_type,
          error |-> "Failed to decode message", uav |-> r.uav]

\* switch (result.type)
DecodeByType(msg_type, data, len, uav) ==
    CASE msg_type = MT_BASIC_ID ->
           MessageResult(msg_type,
                         [ok |-> TRUE, uav |-> decodeBasicID(data, uav)])
      [] msg_type = MT_LOCATION ->
           MessageResult(msg_type,
                         [ok |-> TRUE, uav |-> decodeLocation(data, uav)])
      [] msg_type = MT_AUTH ->
           MessageResult(msg_type,
                         [ok |-> TRUE, uav |-> decodeAuth(data, uav)])
      [] msg_type = MT_SELF_ID ->
           MessageResult(msg_type,
                         [ok |-> TRUE, uav |-> decodeSelfID(data, uav)])
      [] msg_type = MT_SYSTEM ->
           MessageResult(msg_type,
                         [ok |-> TRUE, uav |-> decodeSystem(data, uav)])
      [] msg_type = MT_OPERATOR_ID ->
           MessageResult(msg_type,
                         [ok |-> TRUE, uav |-> decodeOperatorID(data, uav)])
      [] msg_type = MT_MESSAGE_PACK ->
           MessageResult(msg_type, decodeMessagePack(data, len, uav))
      [] OTHER ->
           [success |-> FALSE, type |-> msg_type,
            error |-> "Unknown message type", uav |-> uav]

decodeMessage(data, len, uav) ==
    IF len < MESSAGE_SIZE
    THEN [success |-> FALSE, type |-> MT_BASIC_ID,
          error |-> "Message too short", uav |-> uav]
    ELSE DecodeByType((At(data, 0) \div 16) % 16, data, len, uav)

\* ---------------------------------------------------------------------
\* ASTM F3411 transport envelope (Bluetooth legacy / BT5 extended)
\* ---------------------------------------------------------------------
\* uuid = payload[i] | payload[i+1] << 8
UUIDAt(p, i) == At(p, i) + 256 * At(p, i + 1)

\* for (i = 0; i + 4 < size; i++) if (payload[i] == ODID_AD_TYPE) ...
RECURSIVE ExtScan(_, _)
ExtScan(p, i) ==
    IF ~(i + 4 < Len(p)) THEN FALSE
    ELSE IF At(p, i) = ODID_AD_TYPE /\ i + 3 < Len(p)
            /\ UUIDAt(p, i + 1) = ODID_SERVICE_UUID
    THEN TRUE
    ELSE ExtScan(p, i + 1)

isExtendedAdvertising(p) ==
    IF Len(p) < EXT_ADV_MIN_HEADER + 5 THEN FALSE ELSE ExtScan(p, 0)

\* The AD-structure walk shared by isRemoteID, findODIDData, decodeLegacy:
\* the index of the first AD structure at or after i, reached by walking the
\* lengths, that has len >= 4, ad_type 0x16 and UUID 0xFFFA; -1 if the walk
\* ends (zero length, length reaching past the end, end of payload) first.
RECURSIVE ADWalk(_, _)
ADWalk(p, i) ==
    IF ~(i + 4 < Len(p)) THEN -1
    ELSE LET len == At(p, i) IN
         IF len = 0 \/ i + len >= Len(p) THEN -1
         ELSE IF len >= 4 /\ At(p, i + 1) = ODID_AD_TYPE
                 /\ UUIDAt(p, i + 2) = ODID_SERVICE_UUID
         THEN i
         ELSE ADWalk(p, i + len + 1)

ASTM_isRemoteID(p) ==
    IF Len(p) < 5 THEN FALSE
    ELSE IF isExtendedAdvertising(p) THEN TRUE
    ELSE ADWalk(p, 0) # -1

\* returns [found, data (offset of the first message byte), len]
findODIDData(p) ==
    LET i == ADWalk(p, 0) IN
    IF i = -1 THEN [found |-> FALSE, data |-> 0, len |-> 0]
    ELSE LET ad_len == At(p, i)
             len0 == ad_len - 3
         IN  IF len0 > 0
             THEN [found |-> TRUE, data |-> i + 5, len |-> len0 - 1]
             ELSE [found |-> TRUE, data |-> i + 4, len |-> len0]

\* the end of decodeExtended: r is the result of decodeMessage
ExtendedResult(r) ==
    IF r.success
    THEN [r EXCEPT !.uav.protocol = PROTO_ASTM_F3411,
                   !.uav.transport = TR_BT_EXTENDED]
    ELSE r

decodeExtended(p, uav) ==
    LET f == findODIDData(p) IN
    IF ~f.found
    THEN [success |-> FALSE, type |-> MT_BASIC_ID,
          error |-> "No ODID data found in extended advertisement",
          uav |-> uav]
    ELSE IF f.len < MESSAGE_SIZE
    THEN [success |-> FALSE, type |-> MT_BASIC_ID,
          error |-> "ODID data too short", uav |-> uav]
    ELSE ExtendedResult(decodeMessage(Bytes(p, f.data, f.len), f.len, uav))

\* the loop of decodeLegacy from index i on; a matching AD structure whose
\* message fails to decode does not end the walk
RECURSIVE LegacyLoop(_, _, _)

\* the matching AD structure at j: msg_len = len - 3 less the counter byte,
\* r the result of decodeMessage on its bytes
LegacyStep(p, j, msg_len, uav, r) ==
    IF msg_len >= MESSAGE_SIZE /\ r.success
    THEN [r EXCEPT !.uav.protocol = PROTO_ASTM_F3411,
                   !.uav.transport = TR_BT_LEGACY]
    ELSE LegacyLoop(p, j + At(p, j) + 1,
                    IF msg_len >= MESSAGE_SIZE THEN r.uav ELSE uav)

\* j is the next matching AD structure, or -1
LegacyAt(p, j, uav) ==
    IF j = -1
    THEN [success |-> FALSE, type |-> MT_BASIC_ID,
          error |-> "No valid ODID message found", uav |-> uav]
    ELSE LegacyStep(p, j, At(p, j) - 4, uav,
                    decodeMessage(Bytes(p, j + 5, At(p, j) - 4),
                                  At(p, j) - 4, uav))

LegacyLoop(p, i, uav) == LegacyAt(p, ADWalk(p, i), uav)

decodeLegacy(p, uav) ==
    IF Len(p) < 5
    THEN [success |-> FALSE, type |-> MT_BASIC_ID,
          error |-> "Payload too short", uav |-> uav]
    ELSE LegacyLoop(p, 0, uav)

\* decode after decodeExtended has returned e
AfterExtended(p, e) ==
    IF e.success
    THEN [e EXCEPT !.uav.transport = TR_BT_EXTENDED]
    ELSE decodeLegacy(p, e.uav)

ASTM_decode(p, uav) ==
    IF isExtendedAdvertising(p)
    THEN AfterExtended(p, decodeExtended(p, uav))
    ELSE decodeLegacy(p, uav)

\* ---------------------------------------------------------------------
\* Wi-Fi decoder
\* ---------------------------------------------------------------------
\* memcmp(data + i, pat, Len(pat)) == 0
MatchAt(p, i, pat) ==
    /\ i + Len(pat) <= Len(p)
    /\ \A k \in 1..Len(pat) : At(p, i + k - 1) = pat[k]

WiFi_isRemoteID(p) ==
    IF Len(p) < 10 THEN FALSE
    ELSE \/ \E i \in 0..(Len(p) - 1) :
              i + 6 < Len(p) /\ MatchAt(p, i, WIFI_OUI_FA \o <<WIFI_VENDOR_TYPE>>)
         \/ \E i \in 0..(Len(p) - 1) :
              i + 6 < Len(p) /\ MatchAt(p, i, NAN_SERVICE_ID)

\* returns [ok, payload_offset]
parseFrameHeader(data) ==
    IF Len(data) < MIN_MGMT_HEADER THEN [ok |-> FALSE, payload_offset |-> 0]
    ELSE LET fc == readLE16(data, 0)
             type == (fc \div 4) % 4
             subtype == ((fc \div 16) % 16) * 16
         IN  IF type # 0 THEN [ok |-> FALSE, payload_offset |-> 0]
             ELSE IF subtype \notin {FC_SUBTYPE_BEACON, FC_SUBTYPE_PROBE_RESP,
                                      FC_SUBTYPE_ACTION}
             THEN [ok |-> FALSE, payload_offset |-> 0]
             ELSE [ok |-> TRUE, payload_offset |-> MIN_MGMT_HEADER]

\* returns [found, ie_data (offset into data), ie_len]
RECURSIVE findVendorIE(_, _, _)
findVendorIE(data, oui, offset) ==
    IF ~(offset + 2 <= Len(data))
    THEN [found |-> FALSE, ie_data |-> 0, ie_len |-> 0]
    ELSE LET ie_id == At(data, offset)
             ie_length == At(data, offset + 1)
         IN  IF offset + 2 + ie_length > Len(data)
             THEN [found |-> FALSE, ie_data |-> 0, ie_len |-> 0]
             ELSE IF ie_id = IE_VENDOR_SPECIFIC /\ ie_length >= Len(oui)
                     /\ MatchAt(data, offset + 2, oui)
             THEN [found |-> TRUE, ie_data |-> offset + 2 + Len(oui),
                   ie_len |-> ie_length - Len(oui)]
             ELSE findVendorIE(data, oui, offset + 2 + ie_length)

\* returns [ok, uav]
PayloadResult(r) == [ok |-> r.success, uav |-> r.uav]

decodeASTMPayload(data, len, uav) ==
    IF len < MESSAGE_SIZE THEN [ok |-> FALSE, uav |-> uav]
    ELSE PayloadResult(decodeMessage(data, len, uav))

\* the end of decodeBeacon: d is the result of decodeASTMPayload
BeaconResult(d) ==
    IF d.ok
    THEN [success |-> TRUE, error |-> "",
          uav |-> [d.uav EXCEPT !.transport = TR_WIFI_BEACON,
                                !.protocol = PROTO_ASTM_F3411]]
    ELSE [success |-> FALSE, error |-> "Failed to decode ASTM payload",
          uav |-> d.uav]

\* decodeBeacon once findVendorIE has returned ie for the frame body
BeaconIE(body, ie, uav) ==
    IF ~ie.found
    THEN [success |-> FALSE, error |-> "No Remote ID vendor IE found",
          uav |-> uav]
    ELSE IF ie.ie_len > 1
    THEN BeaconResult(decodeASTMPayload(
                        Bytes(body, ie.ie_data + 1, ie.ie_len - 1),
                        ie.ie_len - 1, uav))
    ELSE [success |-> FALSE, error |-> "Vendor IE data too short",
          uav |-> uav]

\* decodeBeacon on the bytes after the header and the fixed beacon fields
BeaconBody(body, uav) == BeaconIE(body, findVendorIE(body, WIFI_OUI_FA, 0), uav)

\* decodeBeacon once parseFrameHeader has returned h
BeaconHeader(p, h, uav) ==
    IF ~h.ok
    THEN [success |-> FALSE, error |-> "Invalid 802.11 header", uav |-> uav]
    ELSE BeaconBody(Bytes(p, h.payload_offset + MIN_BEACON_BODY,
                          Len(p) - (h.payload_offset + MIN_BEACON_BODY)),
                    uav)

\* returns [success, error, uav]
decodeBeacon(p, uav) ==
    IF Len(p) < MIN_MGMT_HEADER + MIN_BEACON_BODY
    THEN [success |-> FALSE, error |-> "Frame too short for beacon", uav |-> uav]
    ELSE BeaconHeader(p, parseFrameHeader(p), uav)

\* one of the two search loops of decodeNAN: pattern pat at i, messages after it
RECURSIVE NANLoop(_, _, _, _)

\* pat matched at i and decodeASTMPayload returned d
NANStep(p, pat, i, d) ==
    IF d.ok
    THEN [success |-> TRUE, error |-> "",
          uav |-> [d.uav EXCEPT !.transport = TR_WIFI_NAN,
                                !.protocol = PROTO_ASTM_F3411]]
    ELSE NANLoop(p, pat, i + 1, d.uav)

NANLoop(p, pat, i, uav) ==
    IF ~(i + Len(pat) + MESSAGE_SIZE <= Len(p))
    THEN [success |-> FALSE, error |-> "", uav |-> uav]
    ELSE IF MatchAt(p, i, pat)
    THEN NANStep(p, pat, i,
                 decodeASTMPayload(
                     Bytes(p, i + Len(pat), Len(p) - i - Len(pat)),
                     Len(p) - i - Len(pat), uav))
    ELSE NANLoop(p, pat, i + 1, uav)

\* the end of decodeNAN: b is the outcome of the vendor-specific search
NANNotFound(b) ==
    IF b.success THEN b
    ELSE [success |-> FALSE, error |-> "No valid NAN Remote ID data found",
          uav |-> b.uav]

\* decodeNAN after the service-id search has returned a
NANVendorSearch(p, a) ==
    IF a.success THEN a
    ELSE NANNotFound(NANLoop(p, WIFI_OUI_FA \o <<WIFI_VENDOR_TYPE>>, 0, a.uav))

decodeNAN(p, uav) ==
    IF Len(p) < 10
    THEN [success |-> FALSE, error |-> "NAN frame too short", uav |-> uav]
    ELSE NANVendorSearch(p, NANLoop(p, NAN_SERVICE_ID, 0, uav))

\* ---------------------------------------------------------------------
\* ASD-STAN and CN-RID decoders
\* ---------------------------------------------------------------------
ASD_isRemoteID(p) == ASTM_isRemoteID(p)

\* the end of ASD_STAN_Decoder::decode: r is the ASTM decoder's result
ASDResult(r) ==
    IF r.success THEN [r EXCEPT !.uav.protocol = PROTO_ASD_STAN] ELSE r

ASD_decode(p, uav) == ASDResult(ASTM_decode(p, uav))

CN_isRemoteID(p) == FALSE

CN_decode(p, uav) ==
    [success |-> FALSE,
     error |-> "GB/T decoder not implemented. Pending official specification.",
     uav |-> [uav EXCEPT !.protocol = PROTO_CN_RID]]

\* ---------------------------------------------------------------------
\* Bounds of the model
\* ---------------------------------------------------------------------
\* clock ticks per millisecond: steady_clock is finer than the millisecond
\* unit of the timeout
TicksPerMs == 2
\* the clock runs from 0 to MaxTime ticks
MaxTime == 2
\* updates of an entry stop once its message_count has reached MaxCount
MaxCount == 2
\* the repeated-frame scenario: its clock runs to MaxDupTime and it feeds
\* the frame at most MaxParses times
MaxDupTime == 2 * TicksPerMs + 1
MaxParses == 4

\* a Message Pack header declares at most MaxPackCount sub-messages
MaxPackCount == 3

\* ---------------------------------------------------------------------
\* Frames fed to the parser
\* ---------------------------------------------------------------------
RECURSIVE Zeros(_)
Zeros(n) == IF n <= 0 THEN <<>> ELSE <<0>> \o Zeros(n - 1)

Pad(s, n) == s \o Zeros(n - Len(s))

\* ids "A" and "B"
IdA == <<65>>
IdB == <<66>>
Ids == {IdA, IdB}

\* header 0x02 (Basic ID, version 2), 0x12 (serial number, multirotor)
BasicIDMsg(id) == <<2, 18>> \o Pad(id, BASIC_ID_LENGTH) \o Zeros(3)

\* header 0x12 (Location), status 0x20, direction 45, speed 40, vspeed 4
LocationMsg == Pad(<<18, 32, 45, 40, 4, 1, 2, 3, 4, 5, 6, 7, 8, 76, 8, 76, 8>>,
                   MESSAGE_SIZE)

\* type nibble 7 is not a defined message type
UnknownTypeMsg == Pad(<<114>>, MESSAGE_SIZE)

\* {len, 0x16, 0xFA, 0xFF, counter, message}: len = 3 + 1 + message length
LegacyAdv(msg) == <<Len(msg) + 4, 22, 250, 255, 0>> \o msg

\* NAN service id followed by one message
NANFrame(msg) == NAN_SERVICE_ID \o msg

RECURSIVE Fill(_, _)
Fill(b, n) == IF n <= 0 THEN <<>> ELSE <<b>> \o Fill(b, n - 1)

\* the frames the host feeds, without their timestamp
Frames ==
    { [payload |-> <<>>, rssi |-> -60, transport |-> TR_BT_LEGACY],
      [payload |-> Fill(170, 12), rssi |-> -60, transport |-> TR_BT_LEGACY],
      [payload |-> <<30, 22, 250, 255, 0, 2>>, rssi |-> -60,
       transport |-> TR_BT_LEGACY],
      [payload |-> LegacyAdv(UnknownTypeMsg), rssi |-> -60,
       transport |-> TR_BT_LEGACY],
      [payload |-> LegacyAdv(LocationMsg), rssi |-> -60,
       transport |-> TR_BT_LEGACY],
      [payload |-> LegacyAdv(BasicIDMsg(IdA)), rssi |-> -60,
       transport |-> TR_BT_LEGACY],
      [payload |-> LegacyAdv(BasicIDMsg(IdB)), rssi |-> -60,
       transport |-> TR_BT_LEGACY],
      [payload |-> NANFrame(BasicIDMsg(IdA)), rssi |-> -55,
       transport |-> TR_WIFI_NAN] }

\* RawFrame: a frame with its reception instant
Stamp(f, ts) ==
    [payload |-> f.payload, rssi |-> f.rssi, transport |-> f.transport,
     timestamp |-> ts]

\* ParserConfig records the parser is constructed with
Config(timeout, dedup, astm, asd, cn) ==
    [uav_timeout_ms |-> timeout, enable_deduplication |-> dedup,
     enable_astm |-> astm, enable_asd |-> asd, enable_cn |-> cn]

Configs ==
    { Config(0, TRUE, TRUE, FALSE, FALSE),
      Config(1, FALSE, TRUE, FALSE, FALSE),
      Config(1, TRUE, FALSE, TRUE, TRUE),
      Config(1, TRUE, FALSE, FALSE, FALSE) }

\* the configuration of the repeated-frame scenario: deduplication on, a
\* non-zero uav_timeout_ms
DupConfig == Config(1, TRUE, TRUE, FALSE, FALSE)

\* the frames that carry a Basic ID with a non-empty id
IdFrames ==
    { [payload |-> LegacyAdv(BasicIDMsg(IdA)), rssi |-> -60,
       transport |-> TR_BT_LEGACY],
      [payload |-> LegacyAdv(BasicIDMsg(IdB)), rssi |-> -60,
       transport |-> TR_BT_LEGACY],
      [payload |-> NANFrame(BasicIDMsg(IdA)), rssi |-> -55,
       transport |-> TR_WIFI_NAN] }

\* ---------------------------------------------------------------------
\* Frames of the decoding scenario
\* ---------------------------------------------------------------------
RECURSIVE Flatten(_)
Flatten(ss) == IF ss = <<>> THEN <<>> ELSE Head(ss) \o Flatten(Tail(ss))

\* a Message Pack as the tests build it: header 0xF2, the uint8_t
\* ((size - 1) << 4) | count, the sub-messages, zeros up to MESSAGE_SIZE
PackMsg(size, count, msgs) ==
    Pad(<<242, ((size - 1) * 16 + count) % 256>> \o Flatten(msgs),
        MESSAGE_SIZE)

\* {0x1E, 0x16, 0xFA, 0xFF, counter, message}: the length byte is 30
SeedAdv(msg) == <<30, 22, 250, 255, 0>> \o msg

\* a BT5 extended advertisement: the extended header, then the AD structure
ExtendedAdv(hdr, msg) == hdr \o LegacyAdv(msg)

ExtHeaders == { <<0, 0>>, <<1, 0>> }

\* envelopes that no complete message follows
TruncatedPayloads ==
    { <<30, 22, 250, 255, 0, 2>>, <<5, 22, 250, 255, 0, 2>>,
      <<4, 22, 250, 255, 0>> }

SubMsgLists ==
    { <<>>, <<BasicIDMsg(IdA)>>, <<BasicIDMsg(IdA), LocationMsg>>,
      <<UnknownTypeMsg, BasicIDMsg(IdA)>>,
      <<BasicIDMsg(IdA), UnknownTypeMsg, LocationMsg>> }

\* the message sizes a pack header is built for
PackSizes == { 1, 9, 10, 16, 25 }

Packs ==
    { PackMsg(size, count, msgs) :
        size \in PackSizes, count \in 0..MaxPackCount, msgs \in SubMsgLists }

Frame(p, tr) == [payload |-> p, rssi |-> -60, transport |-> tr]

DecodeFrames ==
    { Frame(p, TR_BT_LEGACY) :
        p \in TruncatedPayloads
              \cup { SeedAdv(BasicIDMsg(id)) : id \in Ids }
              \cup { LegacyAdv(BasicIDMsg(id)) : id \in Ids }
              \cup { LegacyAdv(UnknownTypeMsg) \o LegacyAdv(BasicIDMsg(IdB)),
                     LegacyAdv(LocationMsg) }
              \cup { LegacyAdv(k) : k \in Packs } }
    \cup { Frame(ExtendedAdv(h, BasicIDMsg(id)), TR_BT_EXTENDED) :
             h \in ExtHeaders, id \in Ids }

MaxClock == IF MaxDupTime > MaxTime THEN MaxDupTime ELSE MaxTime

\* ---------------------------------------------------------------------
\* RemoteIDParser::parse, the decode part.  Returns
\*   [result |-> ParseResult, forward |-> whether session_manager.update
\*    is called with result.uav]
\* t is steady_clock::now() when parse runs.
\* ---------------------------------------------------------------------
ParseFail(err, is_rid, t) ==
    [result |-> [success |-> FALSE, is_remote_id |-> is_rid,
                 protocol |-> PROTO_UNKNOWN, error |-> err,
                 uav |-> NewUAVObject(t)],
     forward |-> FALSE]

\* ParseDone without the enable_deduplication test before the hand-over to
\* the session manager
ParseDone_AlwaysForward(cfg, d, proto, t) ==
    IF d.success
    THEN [result |-> [success |-> TRUE, is_remote_id |-> TRUE,
                      protocol |-> proto, error |-> "", uav |-> d.uav],
          forward |-> d.uav.id # <<>>]
    ELSE ParseFail(d.error, TRUE, t)

ParseDone(cfg, d, proto, t) ==
    IF d.success
    THEN [result |-> [success |-> TRUE, is_remote_id |-> TRUE,
                      protocol |-> proto, error |-> "", uav |-> d.uav],
          forward |-> cfg.enable_deduplication /\ d.uav.id # <<>>]
    ELSE ParseFail(d.error, TRUE, t)

\* the Wi-Fi branch after decodeBeacon has returned b
BeaconThenNAN(frame, b) ==
    IF b.success THEN b ELSE decodeNAN(frame.payload, b.uav)

WiFi_decode(frame, uav) ==
    IF frame.transport = TR_WIFI_NAN THEN decodeNAN(frame.payload, uav)
    ELSE BeaconThenNAN(frame, decodeBeacon(frame.payload, uav))

\* the Wi-Fi branch with result.is_remote_id left unset
ParseDoneWiFi_FlagUnset(cfg, d, t) ==
    [ParseDone(cfg, d, d.uav.protocol, t) EXCEPT !.result.is_remote_id = FALSE]

\* the Wi-Fi branch once the decoder has returned d: the protocol reported
\* is the one the decoder left in the UAVObject
ParseDoneWiFi(cfg, d, t) == ParseDone(cfg, d, d.uav.protocol, t)

\* parse with the ASD-STAN decoder tried before the ASTM decoder
RemoteIDParser_parse_ASDFirst(cfg, frame, t) ==
    LET p == frame.payload
        uav == [NewUAVObject(t) EXCEPT !.transport = frame.transport,
                                       !.rssi = frame.rssi,
                                       !.last_seen = frame.timestamp]
    IN  IF p = <<>> THEN ParseFail("Empty payload", FALSE, t)
        ELSE IF cfg.enable_asd /\ ASD_isRemoteID(p)
        THEN ParseDone(cfg, ASD_decode(p, uav), PROTO_ASD_STAN, t)
        ELSE IF cfg.enable_astm /\ ASTM_isRemoteID(p)
        THEN ParseDone(cfg, ASTM_decode(p, uav), PROTO_ASTM_F3411, t)
        ELSE IF cfg.enable_astm /\ WiFi_isRemoteID(p)
        THEN ParseDoneWiFi(cfg, WiFi_decode(frame, uav), t)
        ELSE IF cfg.enable_cn /\ CN_isRemoteID(p)
        THEN ParseDone(cfg, CN_decode(p, uav), PROTO_CN_RID, t)
        ELSE ParseFail("No matching protocol decoder", FALSE, t)

\* parse with the Wi-Fi decoder tried whatever the protocol switches are
RemoteIDParser_parse_WiFiUngated(cfg, frame, t) ==
    LET p == frame.payload
        uav == [NewUAVObject(t) EXCEPT !.transport = frame.transport,
                                       !.rssi = frame.rssi,
                                       !.last_seen = frame.timestamp]
    IN  IF p = <<>> THEN ParseFail("Empty payload", FALSE, t)
        ELSE IF cfg.enable_astm /\ ASTM_isRemoteID(p)
        THEN ParseDone(cfg, ASTM_decode(p, uav), PROTO_ASTM_F3411, t)
        ELSE IF WiFi_isRemoteID(p)
        THEN ParseDoneWiFi(cfg, WiFi_decode(frame, uav), t)
        ELSE IF cfg.enable_asd /\ ASD_isRemoteID(p)
        THEN ParseDone(cfg, ASD_decode(p, uav), PROTO_ASD_STAN, t)
        ELSE IF cfg.enable_cn /\ CN_isRemoteID(p)
        THEN ParseDone(cfg, CN_decode(p, uav), PROTO_CN_RID, t)
        ELSE ParseFail("No matching protocol decoder", FALSE, t)

RemoteIDParser_parse(cfg, frame, t) ==
    LET p == frame.payload
        uav == [NewUAVObject(t) EXCEPT !.transport = frame.transport,
                                       !.rssi = frame.rssi,
                                       !.last_seen = frame.timestamp]
    IN  IF p = <<>> THEN ParseFail("Empty payload", FALSE, t)
        ELSE IF cfg.enable_astm /\ ASTM_isRemoteID(p)
        THEN ParseDone(cfg, ASTM_decode(p, uav), PROTO_ASTM_F3411, t)
        ELSE IF cfg.enable_astm /\ WiFi_isRemoteID(p)
        THEN ParseDoneWiFi(cfg, WiFi_decode(frame, uav), t)
        ELSE IF cfg.enable_asd /\ ASD_isRemoteID(p)
        THEN ParseDone(cfg, ASD_decode(p, uav), PROTO_ASD_STAN, t)
        ELSE IF cfg.enable_cn /\ CN_isRemoteID(p)
        THEN ParseDone(cfg, CN_decode(p, uav), PROTO_CN_RID, t)
        ELSE ParseFail("No matching protocol decoder", FALSE, t)

\* ---------------------------------------------------------------------
\* State
\* ---------------------------------------------------------------------
VARIABLES
    config,           \* RemoteIDParser::Impl::config
    uavs_,            \* SessionManager::uavs_ : id -> UAVObject
    timeout_,         \* SessionManager::timeout_ (milliseconds)
    on_new_uav_,      \* callback slots: TRUE when a callable is stored
    on_uav_update_,
    on_uav_timeout_,
    now,              \* steady_clock::now(), in ticks
    lastOp,           \* the last call: [op, arg, ret]
    fired,            \* callback invocations made by the last call, in order:
                      \* [cb, uav (the argument), map (uavs_ at that moment)]
    stats             \* tally of the repeated-frame scenario

vars == <<config, uavs_, timeout_, on_new_uav_, on_uav_update_,
          on_uav_timeout_, now, lastOp, fired, stats>>

NoStats == [frame |-> <<>>, parses |-> 0, on_new |-> 0, on_update |-> 0,
            on_timeout |-> 0, swept |-> FALSE]

EmptyMap == [k \in {} |-> NewUAVObject(0)]

\* the map m with key k bound to v (operator[] followed by assignment)
Put(m, k, v) == [x \in DOMAIN m \cup {k} |-> IF x = k THEN v ELSE m[x]]

\* the map m without key k (erase)
Erase(m, k) == [x \in DOMAIN m \ {k} |-> m[x]]

Invocation(cb, uav, map) == [cb |-> cb, uav |-> uav, map |-> map]

\* ---------------------------------------------------------------------
\* SessionManager operations as functions of the manager's state
\* ---------------------------------------------------------------------
\* the merge branch of update: existing record, incoming record
\* Merge that copies the incoming parts whether they are valid or not
Merge_OverwritesAll(existing, uav) ==
    [existing EXCEPT
        !.rssi = uav.rssi,
        !.last_seen = uav.last_seen,
        !.message_count = @ + 1,
        !.location = uav.location,
        !.system = uav.system,
        !.self_id = uav.self_id,
        !.operator_id = uav.operator_id,
        !.auth_data = uav.auth_data]

\* Merge that takes message_count from the incoming record and keeps the
\* stored rssi
Merge_CountFromIncoming(existing, uav) ==
    [existing EXCEPT
        !.last_seen = uav.last_seen,
        !.message_count = uav.message_count,
        !.location = IF uav.location.valid THEN uav.location ELSE @,
        !.system = IF uav.system.valid THEN uav.system ELSE @,
        !.self_id = IF uav.self_id.valid THEN uav.self_id ELSE @,
        !.operator_id = IF uav.operator_id.valid THEN uav.operator_id ELSE @,
        !.auth_data = IF uav.auth_data # <<>> THEN uav.auth_data ELSE @]

Merge(existing, uav) ==
    [existing EXCEPT
        !.rssi = uav.rssi,
        !.last_seen = uav.last_seen,
        !.message_count = @ + 1,
        !.location = IF uav.location.valid THEN uav.location ELSE @,
        !.system = IF uav.system.valid THEN uav.system ELSE @,
        !.self_id = IF uav.self_id.valid THEN uav.self_id ELSE @,
        !.operator_id = IF uav.operator_id.valid THEN uav.operator_id ELSE @,
        !.auth_data = IF uav.auth_data # <<>> THEN uav.auth_data ELSE @]

\* update that notifies on_update before the merge is stored, and on_new
\* as well when both callbacks are registered
SM_update_NotifyBeforeStore(uavs, cb_new, cb_update, uav) ==
    IF uav.id = <<>> THEN [uavs |-> uavs, ret |-> FALSE, fired |-> <<>>]
    ELSE IF uav.id \notin DOMAIN uavs
    THEN LET m == Put(uavs, uav.id, uav) IN
         [uavs |-> m, ret |-> TRUE,
          fired |-> IF cb_new THEN <<Invocation("on_new", uav, m)>> ELSE <<>>]
    ELSE LET m == Put(uavs, uav.id, Merge(uavs[uav.id], uav)) IN
         [uavs |-> m, ret |-> FALSE,
          fired |-> (IF cb_update
                     THEN <<Invocation("on_update", uavs[uav.id], uavs)>>
                     ELSE <<>>)
                    \o (IF cb_new /\ cb_update
                        THEN <<Invocation("on_new", m[uav.id], m)>>
                        ELSE <<>>)]

\* update without the empty-id test
SM_update_NoIdCheck(uavs, cb_new, cb_update, uav) ==
    IF uav.id \notin DOMAIN uavs
    THEN LET m == Put(uavs, uav.id, uav) IN
         [uavs |-> m, ret |-> TRUE,
          fired |-> IF cb_new THEN <<Invocation("on_new", uav, m)>> ELSE <<>>]
    ELSE LET m == Put(uavs, uav.id, Merge(uavs[uav.id], uav)) IN
         [uavs |-> m, ret |-> FALSE,
          fired |-> IF cb_update
                    THEN <<Invocation("on_update", m[uav.id], m)>>
                    ELSE <<>>]

\* SessionManager::update: returns [uavs, ret, fired]
SM_update(uavs, cb_new, cb_update, uav) ==
    IF uav.id = <<>> THEN [uavs |-> uavs, ret |-> FALSE, fired |-> <<>>]
    ELSE IF uav.id \notin DOMAIN uavs
    THEN LET m == Put(uavs, uav.id, uav) IN
         [uavs |-> m, ret |-> TRUE,
          fired |-> IF cb_new THEN <<Invocation("on_new", uav, m)>> ELSE <<>>]
    ELSE LET m == Put(uavs, uav.id, Merge(uavs[uav.id], uav)) IN
         [uavs |-> m, ret |-> FALSE,
          fired |-> IF cb_update
                    THEN <<Invocation("on_update", m[uav.id], m)>>
                    ELSE <<>>]

\* the sequences that list every element of S once: the orders in which an
\* unordered_map may be iterated
Orders(S) ==
    { o \in [1..Cardinality(S) -> S] :
        \A i, j \in 1..Cardinality(S) : i # j => o[i] # o[j] }

\* duration_cast<milliseconds>(t - last_seen): truncation to whole ms
ElapsedMs(t, last_seen) ==
    IF t >= last_seen THEN (t - last_seen) \div TicksPerMs
    ELSE -((last_seen - t) \div TicksPerMs)

\* the expiry test with >= in place of >
IsTimedOut_Inclusive(elapsed, timeout) == elapsed >= timeout

\* if (elapsed > timeout_)
IsTimedOut(elapsed, timeout) == elapsed > timeout

\* the loop of SessionManager::cleanup over the entries in the iteration
\* order `order` of the unordered_map; acc = [uavs, ret (removed), fired]
RECURSIVE CleanupLoop(_, _, _, _, _)
CleanupLoop(order, t, timeout, cb_timeout, acc) ==
    IF order = <<>> THEN acc
    ELSE LET id == Head(order)
             elapsed == ElapsedMs(t, acc.uavs[id].last_seen)
         IN  IF IsTimedOut(elapsed, timeout)
             THEN CleanupLoop(Tail(order), t, timeout, cb_timeout,
                    [uavs |-> Erase(acc.uavs, id),
                     ret |-> Append(acc.ret, id),
                     fired |-> IF cb_timeout
                               THEN Append(acc.fired,
                                      Invocation("on_timeout", acc.uavs[id],
                                                 acc.uavs))
                               ELSE acc.fired])
             ELSE CleanupLoop(Tail(order), t, timeout, cb_timeout, acc)

\* cleanup that reports and notifies the expired entries and leaves them
\* in the map
SM_cleanup_KeepsEntries(uavs, order, t, timeout, cb_timeout) ==
    [CleanupLoop(order, t, timeout, cb_timeout,
                 [uavs |-> uavs, ret |-> <<>>, fired |-> <<>>])
       EXCEPT !.uavs = uavs]

SM_cleanup(uavs, order, t, timeout, cb_timeout) ==
    CleanupLoop(order, t, timeout, cb_timeout,
                [uavs |-> uavs, ret |-> <<>>, fired |-> <<>>])

\* clear that notifies on_timeout for every entry it drops
SM_clear_Notifies(uavs) ==
    LET order == CHOOSE o \in Orders(DOMAIN uavs) : TRUE IN
    [uavs |-> EmptyMap,
     fired |-> IF on_uav_timeout_
               THEN [i \in 1..Len(order) |->
                       Invocation("on_timeout", uavs[order[i]], uavs)]
               ELSE <<>>]

\* clear that erases a single entry
SM_clear_ErasesOne(uavs) ==
    [uavs |-> IF DOMAIN uavs = {} THEN uavs
              ELSE Erase(uavs, CHOOSE k \in DOMAIN uavs : TRUE),
     fired |-> <<>>]

\* SessionManager::clear
SM_clear(uavs) == [uavs |-> EmptyMap, fired |-> <<>>]

\* SessionManager::getUAV: <<the stored record>>, or <<>> for nullptr
SM_getUAV(uavs, id) == IF id \in DOMAIN uavs THEN <<uavs[id]>> ELSE <<>>

\* SessionManager::count
SM_count(uavs) == Cardinality(DOMAIN uavs)

\* getActiveUAVs that leaves out the entries past their expiry
SM_getActiveUAVs_HidesExpired(uavs) ==
    LET live == {id \in DOMAIN uavs :
                   ~IsTimedOut(ElapsedMs(now, uavs[id].last_seen), timeout_)}
    IN  { [i \in 1..Len(o) |-> uavs[o[i]]] : o \in
            { o \in Orders(live) :
                \A i \in 1..(Len(o) - 1) :
                    uavs[o[i]].last_seen >= uavs[o[i + 1]].last_seen } }

\* getActiveUAVs sorted by last_seen with the oldest first
SM_getActiveUAVs_OldestFirst(uavs) ==
    { [i \in 1..Len(o) |-> uavs[o[i]]] : o \in
        { o \in Orders(DOMAIN uavs) :
            \A i \in 1..(Len(o) - 1) :
                uavs[o[i]].last_seen <= uavs[o[i + 1]].last_seen } }

\* SessionManager::getActiveUAVs: the stored values sorted by last_seen,
\* most recent first; std::sort leaves the order of equal keys open
SM_getActiveUAVs(uavs) ==
    { [i \in 1..Len(o) |-> uavs[o[i]]] : o \in
        { o \in Orders(DOMAIN uavs) :
            \A i \in 1..(Len(o) - 1) :
                uavs[o[i]].last_seen >= uavs[o[i + 1]].last_seen } }

\* ---------------------------------------------------------------------
\* Records handed to SessionManager::update directly
\* ---------------------------------------------------------------------
LocationV(n) == [DefaultLocation EXCEPT !.valid = TRUE, !.latitude = n]

SystemV(n) == [DefaultSystem EXCEPT !.valid = TRUE, !.area_count = n]

SelfIdV(n) == [valid |-> TRUE, description_type |-> 0, description |-> <<n>>]

OperatorIdV(n) == [valid |-> TRUE, id_type |-> 0, id |-> <<n>>]

\* a record with no valid part, as a default-constructed UAVObject with an id
RecNone(id, rssi) == [NewUAVObject(0) EXCEPT !.id = id, !.rssi = rssi]

\* a record with every part valid
RecAll(id, rssi, n) ==
    [NewUAVObject(0) EXCEPT
        !.id = id, !.rssi = rssi, !.message_count = 1,
        !.location = LocationV(n), !.system = SystemV(n),
        !.self_id = SelfIdV(n), !.operator_id = OperatorIdV(n),
        !.auth_data = <<n>>]

\* location and system valid, the rest absent
RecLocSys(id, rssi, n) ==
    [NewUAVObject(0) EXCEPT
        !.id = id, !.rssi = rssi, !.message_count = 1,
        !.location = LocationV(n), !.system = SystemV(n)]

UAVInputs ==
    { RecNone(IdA, -60), RecAll(IdA, -55, 1), RecLocSys(IdA, -60, 2),
      RecNone(IdB, -60), RecAll(<<>>, -60, 1) }

\* ---------------------------------------------------------------------
\* Actions
\* ---------------------------------------------------------------------
Call(op, arg, ret) == [op |-> op, arg |-> arg, ret |-> ret]

\* an update of a tracked id is taken only below the message_count cap
BelowCap(uav, cap) ==
    uav.id \in DOMAIN uavs_ => uavs_[uav.id].message_count < cap

\* SessionManager::update(uav)
Update(uav) ==
    /\ BelowCap(uav, MaxCount)
    /\ LET r == SM_update(uavs_, on_new_uav_, on_uav_update_, uav) IN
         /\ uavs_' = r.uavs
         /\ lastOp' = Call("update", uav, r.ret)
         /\ fired' = r.fired
    /\ UNCHANGED <<config, timeout_, on_new_uav_, on_uav_update_,
                   on_uav_timeout_, now, stats>>

UpdateAny ==
    \E u \in UAVInputs, ts \in 0..now : Update([u EXCEPT !.last_seen = ts])

\* RemoteIDParser_parse tabulated over the configurations, frames and
\* instants of the model, so that each decode is computed once
ParseTable ==
    [c \in Configs \cup {DupConfig}, f \in Frames,
     ts \in 0..MaxClock, t \in 0..MaxClock |->
        RemoteIDParser_parse(c, Stamp(f, ts), t)]

\* the effect of a parse whose outcome is o = [result, forward]: the record
\* is handed to SessionManager::update when forward is set
ParseOutcome(f, o, cap) ==
    /\ o.forward => BelowCap(o.result.uav, cap)
    /\ LET r == IF o.forward
                THEN SM_update(uavs_, on_new_uav_, on_uav_update_,
                               o.result.uav)
                ELSE [uavs |-> uavs_, ret |-> FALSE, fired |-> <<>>]
       IN  /\ uavs_' = r.uavs
           /\ lastOp' = Call("parse", f, o.result)
           /\ fired' = r.fired
    /\ UNCHANGED <<config, timeout_, on_new_uav_, on_uav_update_,
                   on_uav_timeout_, now>>

\* parse that sweeps the expired entries before it hands the record over
ParseCore_SweepsFirst(f, ts, cap) ==
    LET o == ParseTable[config, f, ts, now]
        order == CHOOSE q \in Orders(DOMAIN uavs_) : TRUE
        c == SM_cleanup(uavs_, order, now, timeout_, on_uav_timeout_)
    IN
    /\ o.forward => BelowCap(o.result.uav, cap)
    /\ LET r == IF o.forward
                THEN SM_update(c.uavs, on_new_uav_, on_uav_update_,
                               o.result.uav)
                ELSE [uavs |-> c.uavs, ret |-> FALSE, fired |-> <<>>]
       IN  /\ uavs_' = r.uavs
           /\ lastOp' = Call("parse", f, o.result)
           /\ fired' = c.fired \o r.fired
    /\ UNCHANGED <<config, timeout_, on_new_uav_, on_uav_update_,
                   on_uav_timeout_, now>>

\* parse that drops the tracked drones when the frame did not decode
ParseCore_ClearsOnFailure(f, ts, cap) ==
    LET o == ParseTable[config, f, ts, now] IN
    /\ o.forward => BelowCap(o.result.uav, cap)
    /\ LET r == IF o.forward
                THEN SM_update(uavs_, on_new_uav_, on_uav_update_,
                               o.result.uav)
                ELSE IF o.result.success
                THEN [uavs |-> uavs_, ret |-> FALSE, fired |-> <<>>]
                ELSE [uavs |-> EmptyMap, ret |-> FALSE, fired |-> <<>>]
       IN  /\ uavs_' = r.uavs
           /\ lastOp' = Call("parse", f, o.result)
           /\ fired' = r.fired
    /\ UNCHANGED <<config, timeout_, on_new_uav_, on_uav_update_,
                   on_uav_timeout_, now>>

\* RemoteIDParser::parse(frame) for the frame f received at ts, without the
\* scenario tally
ParseCore(f, ts, cap) == ParseOutcome(f, ParseTable[config, f, ts, now], cap)

\* parse(const RawFrame&): the caller supplies the timestamp
ParseFrame ==
    \E f \in Frames, ts \in 0..now :
        ParseCore(f, ts, MaxCount) /\ UNCHANGED stats

\* parse(payload, rssi, transport): timestamp = steady_clock::now()
ParseBytes ==
    \E f \in Frames : ParseCore(f, now, MaxCount) /\ UNCHANGED stats

\* SessionManager::cleanup, without the scenario tally; returns_ids tells
\* whether the caller sees the removed ids (SessionManager) or nothing
\* (RemoteIDParser::cleanup is void)
CleanupCore(returns_ids) ==
    /\ \E order \in Orders(DOMAIN uavs_) :
         LET r == SM_cleanup(uavs_, order, now, timeout_, on_uav_timeout_) IN
           /\ uavs_' = r.uavs
           /\ lastOp' = Call("cleanup", <<>>,
                             IF returns_ids THEN r.ret ELSE <<>>)
           /\ fired' = r.fired
    /\ UNCHANGED <<config, timeout_, on_new_uav_, on_uav_update_,
                   on_uav_timeout_, now>>

\* SessionManager::cleanup()
SMCleanup == CleanupCore(TRUE) /\ UNCHANGED stats

\* RemoteIDParser::cleanup()
Cleanup == CleanupCore(FALSE) /\ UNCHANGED stats

\* clear()
Clear ==
    /\ LET r == SM_clear(uavs_) IN
         /\ uavs_' = r.uavs
         /\ fired' = r.fired
    /\ lastOp' = Call("clear", <<>>, <<>>)
    /\ UNCHANGED <<config, timeout_, on_new_uav_, on_uav_update_,
                   on_uav_timeout_, now, stats>>

\* getActiveUAVs()
GetActiveUAVs ==
    /\ \E r \in SM_getActiveUAVs(uavs_) :
         lastOp' = Call("getActiveUAVs", <<>>, r)
    /\ fired' = <<>>
    /\ UNCHANGED <<config, uavs_, timeout_, on_new_uav_, on_uav_update_,
                   on_uav_timeout_, now, stats>>

\* getUAV(id)
GetUAV ==
    /\ \E id \in Ids : lastOp' = Call("getUAV", id, SM_getUAV(uavs_, id))
    /\ fired' = <<>>
    /\ UNCHANGED <<config, uavs_, timeout_, on_new_uav_, on_uav_update_,
                   on_uav_timeout_, now, stats>>

\* getActiveCount() / count()
GetActiveCount ==
    /\ lastOp' = Call("getActiveCount", <<>>, SM_count(uavs_))
    /\ fired' = <<>>
    /\ UNCHANGED <<config, uavs_, timeout_, on_new_uav_, on_uav_update_,
                   on_uav_timeout_, now, stats>>

\* setOnNewUAV(callback): callback is a callable (TRUE) or empty (FALSE)
SetOnNewUAV ==
    /\ \E cb \in BOOLEAN :
         /\ on_new_uav_' = cb
         /\ lastOp' = Call("setOnNewUAV", cb, <<>>)
    /\ fired' = <<>>
    /\ UNCHANGED <<config, uavs_, timeout_, on_uav_update_, on_uav_timeout_,
                   now, stats>>

SetOnUAVUpdate ==
    /\ \E cb \in BOOLEAN :
         /\ on_uav_update_' = cb
         /\ lastOp' = Call("setOnUAVUpdate", cb, <<>>)
    /\ fired' = <<>>
    /\ UNCHANGED <<config, uavs_, timeout_, on_new_uav_, on_uav_timeout_,
                   now, stats>>

SetOnUAVTimeout ==
    /\ \E cb \in BOOLEAN :
         /\ on_uav_timeout_' = cb
         /\ lastOp' = Call("setOnUAVTimeout", cb, <<>>)
    /\ fired' = <<>>
    /\ UNCHANGED <<config, uavs_, timeout_, on_new_uav_, on_uav_update_,
                   now, stats>>

\* time passes between calls
Tick ==
    /\ now < MaxTime
    /\ now' = now + 1
    /\ lastOp' = Call("tick", <<>>, <<>>)
    /\ fired' = <<>>
    /\ UNCHANGED <<config, uavs_, timeout_, on_new_uav_, on_uav_update_,
                   on_uav_timeout_, stats>>

\* ---------------------------------------------------------------------
\* Specifications
\* ---------------------------------------------------------------------
\* a RemoteIDParser after construction
Init ==
    /\ config \in Configs
    /\ uavs_ = EmptyMap
    /\ timeout_ = config.uav_timeout_ms
    /\ on_new_uav_ = FALSE
    /\ on_uav_update_ = FALSE
    /\ on_uav_timeout_ = FALSE
    /\ now = 0
    /\ lastOp = Call("init", <<>>, <<>>)
    /\ fired = <<>>
    /\ stats = NoStats

Next ==
    \/ ParseFrame
    \/ ParseBytes
    \/ Cleanup
    \/ Clear
    \/ GetActiveUAVs
    \/ GetUAV
    \/ GetActiveCount
    \/ SetOnNewUAV
    \/ SetOnUAVUpdate
    \/ SetOnUAVTimeout
    \/ Tick

Spec == Init /\ [][Next]_vars

\* a SessionManager(timeout_ms) used on its own
InitSM ==
    /\ config = Config(0, TRUE, TRUE, FALSE, FALSE)
    /\ uavs_ = EmptyMap
    /\ timeout_ \in {0, 1}
    /\ on_new_uav_ = FALSE
    /\ on_uav_update_ = FALSE
    /\ on_uav_timeout_ = FALSE
    /\ now = 0
    /\ lastOp = Call("init", <<>>, <<>>)
    /\ fired = <<>>
    /\ stats = NoStats

NextSM ==
    \/ UpdateAny
    \/ SMCleanup
    \/ Clear
    \/ GetActiveUAVs
    \/ GetUAV
    \/ GetActiveCount
    \/ SetOnNewUAV
    \/ SetOnUAVUpdate
    \/ SetOnUAVTimeout
    \/ Tick

SpecSM == InitSM /\ [][NextSM]_vars

\* ---------------------------------------------------------------------
\* The repeated-frame scenario: a parser with deduplication and a non-zero
\* timeout, the three callbacks registered, is fed one id-bearing frame
\* again and again while time passes and the host may call cleanup.
\* stats counts the parse calls and the callback invocations; stats.swept
\* records that cleanup has run while an entry was past its expiry.
\* ---------------------------------------------------------------------
\* the entry u is past the expiry: its age in whole milliseconds exceeds
\* the timeout
AgedOut(u) == now - u.last_seen >= (timeout_ + 1) * TicksPerMs

\* the age of u exceeds the expiry: now - last_seen > timeout_
ExceedsExpiry(u) == now - u.last_seen > timeout_ * TicksPerMs

CountCb(f, cb) == Cardinality({i \in 1..Len(f) : f[i].cb = cb})

DupParse ==
    /\ stats.parses < MaxParses
    /\ \E ts \in 0..now : ParseCore(stats.frame, ts, MaxParses)
    /\ stats' = [stats EXCEPT
                   !.parses = @ + 1,
                   !.on_new = @ + CountCb(fired', "on_new"),
                   !.on_update = @ + CountCb(fired', "on_update"),
                   !.on_timeout = @ + CountCb(fired', "on_timeout")]

DupCleanup ==
    /\ CleanupCore(FALSE)
    /\ stats' = [stats EXCEPT
                   !.on_new = @ + CountCb(fired', "on_new"),
                   !.on_update = @ + CountCb(fired', "on_update"),
                   !.on_timeout = @ + CountCb(fired', "on_timeout"),
                   !.swept = @ \/ \E id \in DOMAIN uavs_ : AgedOut(uavs_[id])]

DupTick ==
    /\ now < MaxDupTime
    /\ now' = now + 1
    /\ lastOp' = Call("tick", <<>>, <<>>)
    /\ fired' = <<>>
    /\ UNCHANGED <<config, uavs_, timeout_, on_new_uav_, on_uav_update_,
                   on_uav_timeout_, stats>>

InitDup ==
    /\ config = DupConfig
    /\ uavs_ = EmptyMap
    /\ timeout_ = config.uav_timeout_ms
    /\ on_new_uav_ = TRUE
    /\ on_uav_update_ = TRUE
    /\ on_uav_timeout_ = TRUE
    /\ now = 0
    /\ lastOp = Call("init", <<>>, <<>>)
    /\ fired = <<>>
    /\ \E f \in IdFrames : stats = [NoStats EXCEPT !.frame = f]

NextDup ==
    \/ DupParse
    \/ DupCleanup
    \/ DupTick
    \/ GetActiveUAVs
    \/ GetUAV
    \/ GetActiveCount

SpecDup == InitDup /\ [][NextDup]_vars

\* ---------------------------------------------------------------------
\* The reset scenario: a SessionManager that is updated and cleared, with
\* stats.dropped the ids clear() has removed so far.
\* ---------------------------------------------------------------------
ResetClear ==
    /\ LET r == SM_clear(uavs_) IN
         /\ uavs_' = r.uavs
         /\ fired' = r.fired
    /\ lastOp' = Call("clear", <<>>, <<>>)
    /\ stats' = [stats EXCEPT !.dropped = @ \cup DOMAIN uavs_]
    /\ UNCHANGED <<config, timeout_, on_new_uav_, on_uav_update_,
                   on_uav_timeout_, now>>

InitReset ==
    /\ config = Config(1, TRUE, TRUE, FALSE, FALSE)
    /\ uavs_ = EmptyMap
    /\ timeout_ = 1
    /\ on_new_uav_ = FALSE
    /\ on_uav_update_ = FALSE
    /\ on_uav_timeout_ = FALSE
    /\ now = 0
    /\ lastOp = Call("init", <<>>, <<>>)
    /\ fired = <<>>
    /\ stats = [dropped |-> {}]

NextReset ==
    \/ UpdateAny
    \/ ResetClear
    \/ SetOnNewUAV
    \/ SetOnUAVUpdate
    \/ SetOnUAVTimeout
    \/ Tick

SpecReset == InitReset /\ [][NextReset]_vars

\* ---------------------------------------------------------------------
\* The decoding scenario: a parser with the default protocol switches is
\* handed one frame, stats.frame, through RemoteIDParser::parse, and the
\* frame's payload is handed to ASTM_F3411_Decoder::decode with a fresh
\* UAVObject.
\* ---------------------------------------------------------------------
\* parse and decode tabulated over the frames of the scenario
DecodeTable ==
    [f \in DecodeFrames |->
        [parse |-> RemoteIDParser_parse(DupConfig, Stamp(f, 0), 0),
         decode |-> ASTM_decode(f.payload, NewUAVObject(0))]]

\* RemoteIDParser::parse(stats.frame)
DecodeParse ==
    /\ ParseOutcome(stats.frame, DecodeTable[stats.frame].parse, MaxCount)
    /\ UNCHANGED stats

\* ASTM_F3411_Decoder::decode(payload, uav) with UAVObject uav;
DecoderDecode ==
    /\ lastOp' = Call("decode", stats.frame.payload,
                      DecodeTable[stats.frame].decode)
    /\ fired' = <<>>
    /\ UNCHANGED <<config, uavs_, timeout_, on_new_uav_, on_uav_update_,
                   on_uav_timeout_, now, stats>>

InitDecode ==
    /\ config = DupConfig
    /\ uavs_ = EmptyMap
    /\ timeout_ = config.uav_timeout_ms
    /\ on_new_uav_ = FALSE
    /\ on_uav_update_ = FALSE
    /\ on_uav_timeout_ = FALSE
    /\ now = 0
    /\ lastOp = Call("init", <<>>, <<>>)
    /\ fired = <<>>
    /\ \E f \in DecodeFrames : stats = [NoStats EXCEPT !.frame = f]

NextDecode ==
    \/ DecodeParse
    \/ DecoderDecode

SpecDecode == InitDecode /\ [][NextDecode]_vars

\* ---------------------------------------------------------------------
\* Byte accesses of RemoteIDParser::parse.  The run of parse on a frame is
\* written out as the sequence of its loop iterations and message decodes,
\* each an event [loop, i, reads]: the loop it belongs to, the loop index
\* (or the message offset) and the payload indices it reads.
\* ---------------------------------------------------------------------
\* payload[i] as a read that is recorded rather than trusted: an index at or
\* past the end yields a byte of no consequence to the trace
Peek(p, i) == IF i < Len(p) THEN At(p, i) ELSE 0

\* the indices decodeMessage(p + off, len) reads, len >= MESSAGE_SIZE: the
\* header, then what the decoder of its type reads; decodeMessagePack reads
\* pack_info and, when the message size matches, decodes the sub-messages
RECURSIVE MessageReads(_, _, _)
MessageReads(p, off, len) ==
    LET msg_type == (Peek(p, off) \div 16) % 16
        pack_info == Peek(p, off + 1)
        last == CASE msg_type = MT_BASIC_ID -> 1 + BASIC_ID_LENGTH
                  [] msg_type = MT_LOCATION -> 22
                  [] msg_type = MT_AUTH -> MESSAGE_SIZE - 1
                  [] msg_type = MT_SELF_ID -> 1 + SELF_ID_LENGTH
                  [] msg_type = MT_SYSTEM -> 20
                  [] msg_type = MT_OPERATOR_ID -> 1 + OPERATOR_ID_LENGTH
                  [] OTHER -> 0
    IN  IF msg_type # MT_MESSAGE_PACK
        THEN off..(off + last)
        ELSE IF ((pack_info \div 16) % 16) + 1 # MESSAGE_SIZE
        THEN {off, off + 1}
        ELSE {off, off + 1} \cup
             UNION { MessageReads(p, off + 2 + MESSAGE_SIZE * k, MESSAGE_SIZE) :
                       k \in { j \in 0..((pack_info % 16) - 1) :
                                 2 + MESSAGE_SIZE * (j + 1) <= len } }

\* the events of decodeMessage(p + off, len)
MessageTrace(p, off, len) ==
    IF len < MESSAGE_SIZE THEN <<>>
    ELSE << [loop |-> "decodeMessage", i |-> off,
             reads |-> MessageReads(p, off, len)] >>

\* the loop of isExtendedAdvertising from index i on
RECURSIVE ExtScanTrace(_, _)
ExtScanTrace(p, i) ==
    IF ~(i + 4 < Len(p)) THEN <<>>
    ELSE LET hit == Peek(p, i) = ODID_AD_TYPE /\ i + 3 < Len(p)
             ev == [loop |-> "isExtendedAdvertising", i |-> i,
                    reads |-> IF hit THEN {i, i + 1, i + 2} ELSE {i}]
         IN  IF hit /\ Peek(p, i + 1) + 256 * Peek(p, i + 2) = ODID_SERVICE_UUID
             THEN <<ev>>
             ELSE <<ev>> \o ExtScanTrace(p, i + 1)

\* the AD walk without the test of the length against the payload size
ADBreaks_ZeroOnly(p, i) == Peek(p, i) = 0

\* if (len == 0 || i + len >= payload.size()) break;
ADBreaks(p, i) == Peek(p, i) = 0 \/ i + Peek(p, i) >= Len(p)

\* the AD walk of isRemoteID and findODIDData (decodes = FALSE: the walk
\* returns at the first matching structure) and of decodeLegacy (decodes =
\* TRUE: the message of a matching structure is decoded, and the walk
\* goes on when it is too short or fails to decode), from index i on
RECURSIVE ADTrace(_, _, _, _)
ADTrace(p, i, loop, decodes) ==
    IF ~(i + 4 < Len(p)) THEN <<>>
    ELSE IF ADBreaks(p, i) THEN << [loop |-> loop, i |-> i, reads |-> {i}] >>
    ELSE LET len == Peek(p, i)
             typed == len >= 4 /\ Peek(p, i + 1) = ODID_AD_TYPE
             match == typed /\ Peek(p, i + 2) + 256 * Peek(p, i + 3)
                                  = ODID_SERVICE_UUID
             ev == [loop |-> loop, i |-> i,
                    reads |-> {i} \cup (IF len >= 4 THEN {i + 1} ELSE {})
                                  \cup (IF typed THEN {i + 2, i + 3} ELSE {})]
             decoded == /\ len - 4 >= MESSAGE_SIZE
                        /\ i + len < Len(p)
                        /\ decodeMessage(Bytes(p, i + 5, len - 4), len - 4,
                                         NewUAVObject(0)).success
         IN  IF match /\ ~decodes THEN <<ev>>
             ELSE IF match
             THEN <<ev>> \o MessageTrace(p, i + 5, len - 4)
                  \o (IF decoded THEN <<>>
                      ELSE ADTrace(p, i + len + 1, loop, decodes))
             ELSE <<ev>> \o ADTrace(p, i + len + 1, loop, decodes)

\* ASTM_F3411_Decoder::isRemoteID(p) followed, when it accepts, by decode(p)
ASTM_Trace(p) ==
    LET ext == IF Len(p) < EXT_ADV_MIN_HEADER + 5 THEN <<>>
               ELSE ExtScanTrace(p, 0)
        f == findODIDData(p)
        legacy == IF Len(p) < 5 THEN <<>>
                  ELSE ADTrace(p, 0, "decodeLegacy", TRUE)
        extended == ADTrace(p, 0, "findODIDData", FALSE)
                    \o (IF f.found /\ f.len >= MESSAGE_SIZE
                        THEN MessageTrace(p, f.data, f.len) ELSE <<>>)
        is_rid == IF Len(p) < 5 THEN <<>>
                  ELSE ext \o (IF isExtendedAdvertising(p) THEN <<>>
                               ELSE ADTrace(p, 0, "isRemoteID", FALSE))
        decode == IF isExtendedAdvertising(p)
                  THEN ext \o extended
                       \o (IF decodeExtended(p, NewUAVObject(0)).success
                           THEN <<>> ELSE legacy)
                  ELSE ext \o legacy
    IN  IF ASTM_isRemoteID(p) THEN is_rid \o decode ELSE is_rid

\* a search loop of WiFiDecoder::isRemoteID or decodeNAN for the bytes pat,
\* from index i on, running while i + room <= size.  memcmp (whole = TRUE)
\* may read all of the compared bytes, the && chain reads up to the first
\* mismatch.  In decodeNAN (decodes = TRUE) the bytes after a match go to
\* decodeASTMPayload and the loop goes on when that fails.
RECURSIVE PatTrace(_, _, _, _, _, _, _)
PatTrace(p, i, pat, room, whole, loop, decodes) ==
    IF ~(i + room <= Len(p)) THEN <<>>
    ELSE LET miss == { k \in 1..Len(pat) : Peek(p, i + k - 1) # pat[k] }
             n == IF whole \/ miss = {} THEN Len(pat)
                  ELSE CHOOSE k \in miss : \A j \in miss : k <= j
             ev == [loop |-> loop, i |-> i, reads |-> i..(i + n - 1)]
             off == i + Len(pat)
             len == Len(p) - off
             decoded == /\ len >= MESSAGE_SIZE
                        /\ decodeMessage(Bytes(p, off, len), len,
                                         NewUAVObject(0)).success
         IN  IF miss # {}
             THEN <<ev>> \o PatTrace(p, i + 1, pat, room, whole, loop, decodes)
             ELSE IF ~decodes THEN <<ev>>
             ELSE <<ev>> \o MessageTrace(p, off, len)
                  \o (IF decoded THEN <<>>
                      ELSE PatTrace(p, i + 1, pat, room, whole, loop, decodes))

\* the loop of findVendorIE over the elements that start at index base of
\* the frame, from element offset on
RECURSIVE VendorIETrace(_, _, _)
VendorIETrace(p, base, offset) ==
    IF ~(offset + 2 <= Len(p) - base) THEN <<>>
    ELSE LET ie_id == Peek(p, base + offset)
             ie_length == Peek(p, base + offset + 1)
             past == offset + 2 + ie_length > Len(p) - base
             compared == ~past /\ ie_id = IE_VENDOR_SPECIFIC
                         /\ ie_length >= Len(WIFI_OUI_FA)
             ev == [loop |-> "findVendorIE", i |-> base + offset,
                    reads |-> {base + offset, base + offset + 1} \cup
                              (IF compared
                               THEN (base + offset + 2)..
                                    (base + offset + 1 + Len(WIFI_OUI_FA))
                               ELSE {})]
         IN  IF past \/ (compared /\ MatchAt(p, base + offset + 2, WIFI_OUI_FA))
             THEN <<ev>>
             ELSE <<ev>> \o VendorIETrace(p, base, offset + 2 + ie_length)

\* WiFiDecoder::isRemoteID(payload) followed, when it accepts, by decodeNAN
\* or by decodeBeacon and then decodeNAN, as parse chooses by the transport
WiFi_Trace(frame) ==
    LET p == frame.payload
        oui == WIFI_OUI_FA \o <<WIFI_VENDOR_TYPE>>
        base == MIN_MGMT_HEADER + MIN_BEACON_BODY
        ie == findVendorIE(Bytes(p, base, Len(p) - base), WIFI_OUI_FA, 0)
        is_rid ==
            IF Len(p) < 10 THEN <<>>
            ELSE PatTrace(p, 0, oui, 7, FALSE, "isRemoteID.oui", FALSE)
                 \o (IF \E i \in 0..(Len(p) - 1) :
                           i + 6 < Len(p) /\ MatchAt(p, i, oui)
                     THEN <<>>
                     ELSE PatTrace(p, 0, NAN_SERVICE_ID, 7, TRUE,
                                   "isRemoteID.nan", FALSE))
        beacon ==
            IF Len(p) < base THEN <<>>
            ELSE << [loop |-> "parseFrameHeader", i |-> 0, reads |-> {0, 1}] >>
                 \o (IF ~parseFrameHeader(p).ok THEN <<>>
                     ELSE VendorIETrace(p, base, 0)
                          \o (IF ie.found /\ ie.ie_len > 1
                              THEN MessageTrace(p, base + ie.ie_data + 1,
                                                ie.ie_len - 1)
                              ELSE <<>>))
        nan ==
            IF Len(p) < 10 THEN <<>>
            ELSE PatTrace(p, 0, NAN_SERVICE_ID, Len(NAN_SERVICE_ID) + MESSAGE_SIZE,
                          TRUE, "decodeNAN.nan", TRUE)
                 \o (IF NANLoop(p, NAN_SERVICE_ID, 0, NewUAVObject(0)).success
                     THEN <<>>
                     ELSE PatTrace(p, 0, oui, Len(oui) + MESSAGE_SIZE,
                                   FALSE, "decodeNAN.oui", TRUE))
        decode ==
            IF frame.transport = TR_WIFI_NAN THEN nan
            ELSE beacon \o (IF decodeBeacon(p, NewUAVObject(0)).success
                            THEN <<>> ELSE nan)
    IN  IF WiFi_isRemoteID(p) THEN is_rid \o decode ELSE is_rid

\* RemoteIDParser::parse(frame) under the switches cfg; the ASD-STAN decoder
\* runs the ASTM decoder's code, the CN-RID decoder reads nothing
ParseTrace(cfg, frame) ==
    LET p == frame.payload
        astm == IF cfg.enable_astm THEN ASTM_Trace(p) ELSE <<>>
        wifi == IF cfg.enable_astm THEN WiFi_Trace(frame) ELSE <<>>
        asd == IF cfg.enable_asd THEN ASTM_Trace(p) ELSE <<>>
    IN  IF p = <<>> THEN <<>>
        ELSE IF cfg.enable_astm /\ ASTM_isRemoteID(p) THEN astm
        ELSE IF cfg.enable_astm /\ WiFi_isRemoteID(p) THEN astm \o wifi
        ELSE astm \o wifi \o asd

\* ---------------------------------------------------------------------
\* The scanning scenario: a parser with the default protocol switches is
\* handed one frame, stats.frame, whose payload is a run of AD structures
\* or a Wi-Fi frame, well-formed or not; stats.trace records the byte
\* accesses of the last parse.
\* ---------------------------------------------------------------------
\* the longest run of AD structures in a payload
MaxChunks == 3

\* AD structures: a zero length, short structures, Remote ID service data
\* without a message, with a length past the end, with a message
ADChunks ==
    { <<0>>, <<1, 9>>, <<2, 1, 6>>, <<3, 22, 250, 255>>,
      <<4, 22, 250, 255, 0>>, <<30, 22, 250, 255, 0, 2>>,
      <<22, 250, 255, 0, 0>>,
      LegacyAdv(UnknownTypeMsg), LegacyAdv(BasicIDMsg(IdA)) }

\* createBeaconFrame: the 24-byte management header of a beacon, the 12
\* bytes of fixed parameters, then the information elements ies
BeaconFrame(ies) ==
    <<128, 0, 0, 0>> \o Fill(255, 6) \o Zeros(14) \o Zeros(8)
    \o <<100, 0, 1, 0>> \o ies

ScanFrames ==
    LET vendor == <<IE_VENDOR_SPECIFIC, 4 + MESSAGE_SIZE>> \o WIFI_OUI_FA
                  \o <<WIFI_VENDOR_TYPE>> \o BasicIDMsg(IdB)
        oui == WIFI_OUI_FA \o <<WIFI_VENDOR_TYPE>>
        ies == { <<>>, vendor, <<0, 0>> \o vendor,
                 <<IE_VENDOR_SPECIFIC, 3, 0, 0, 0>> \o vendor,
                 <<IE_VENDOR_SPECIFIC, 4>> \o oui,
                 <<IE_VENDOR_SPECIFIC, 200>> \o oui \o <<2, 18, 66>>,
                 <<5, 1, 7>> \o oui \o <<2, 18, 66, IE_VENDOR_SPECIFIC>> }
        nans == { NANFrame(BasicIDMsg(IdB)), NAN_SERVICE_ID \o <<2, 18, 66, 0>>,
                  oui \o BasicIDMsg(IdB),
                  NANFrame(UnknownTypeMsg) \o oui \o BasicIDMsg(IdA) }
    IN  { Frame(Flatten(s), TR_BT_LEGACY) :
            s \in UNION { [1..n -> ADChunks] : n \in 1..MaxChunks } }
        \cup { Frame(BeaconFrame(e), TR_WIFI_BEACON) : e \in ies }
        \cup { Frame(q, tr) : q \in nans, tr \in {TR_WIFI_NAN, TR_WIFI_BEACON} }

\* parse and its byte accesses tabulated over the frames of the scenario
ScanTable ==
    [f \in ScanFrames |->
        [parse |-> RemoteIDParser_parse(DupConfig, Stamp(f, 0), 0),
         trace |-> ParseTrace(DupConfig, f)]]

\* RemoteIDParser::parse(stats.frame)
ScanParse ==
    /\ ParseOutcome(stats.frame, ScanTable[stats.frame].parse, MaxCount)
    /\ stats' = [stats EXCEPT !.trace = ScanTable[stats.frame].trace]

InitScan ==
    /\ config = DupConfig
    /\ uavs_ = EmptyMap
    /\ timeout_ = config.uav_timeout_ms
    /\ on_new_uav_ = FALSE
    /\ on_uav_update_ = FALSE
    /\ on_uav_timeout_ = FALSE
    /\ now = 0
    /\ lastOp = Call("init", <<>>, <<>>)
    /\ fired = <<>>
    /\ \E f \in ScanFrames : stats = [frame |-> f, trace |-> <<>>]

NextScan == ScanParse

SpecScan == InitScan /\ [][NextScan]_vars

\* ---------------------------------------------------------------------
\* The protocol-switch scenario: a parser constructed with any combination
\* of enable_astm, enable_asd and enable_cn is handed the frames of Frames.
\* ---------------------------------------------------------------------
ProtoConfigs ==
    { Config(1, TRUE, astm, asd, cn) :
        astm \in BOOLEAN, asd \in BOOLEAN, cn \in BOOLEAN }

\* RemoteIDParser::parse(frame) at instant now
ProtoParse ==
    \E f \in Frames :
        /\ ParseOutcome(f, RemoteIDParser_parse(config, Stamp(f, now), now),
                        MaxCount)
        /\ UNCHANGED stats

InitProto ==
    /\ config \in ProtoConfigs
    /\ uavs_ = EmptyMap
    /\ timeout_ = config.uav_timeout_ms
    /\ on_new_uav_ = FALSE
    /\ on_uav_update_ = FALSE
    /\ on_uav_timeout_ = FALSE
    /\ now = 0
    /\ lastOp = Call("init", <<>>, <<>>)
    /\ fired = <<>>
    /\ stats = NoStats

NextProto == ProtoParse \/ Tick

SpecProto == InitProto /\ [][NextProto]_vars

\* ---------------------------------------------------------------------
\* AnomalyDetector.  Instants are clock ticks; latitudes are counted in
\* steps of 100 m along one meridian, altitudes in metres, speeds in m/s.
\* ---------------------------------------------------------------------
\* AnomalyConfig{}
DefaultAnomalyConfig ==
    [max_horizontal_speed |-> 150, max_vertical_speed |-> 50,
     max_acceleration |-> 30, max_position_jump_m |-> 1000,
     replay_window_ms |-> 5000, min_duplicate_count |-> 3,
     min_rssi_change |-> 20, max_timestamp_gap_ms |-> 10000]

\* UAVHistory{}: four deques that grow and shrink together
EmptyHistory ==
    [positions |-> <<>>, rssi_history |-> <<>>, timestamps |-> <<>>,
     message_hashes |-> <<>>]

\* AnomalyDetector(config): no history, no counts
NewDetector ==
    [history_ |-> [k \in {} |-> EmptyHistory],
     anomaly_counts_ |-> [k \in {} |-> 0],
     total_anomalies_ |-> 0]

Anomaly(type, severity, id, description) ==
    [type |-> type, severity |-> severity, uav_id |-> id,
     description |-> description]

\* the 32-bit combination of the hashes of id, latitude, longitude,
\* altitude_geo and speed_horizontal.  std::hash is implementation-defined:
\* the hash of a value is taken to be the value (the first byte for the id)
\* and the shifted hashes are added rather than XORed; equal fields give
\* equal hashes and different fields can collide.  The sums of the model
\* stay far below 2^32.
hashMessage(uav) ==
    LET abs(x) == IF x < 0 THEN -x ELSE x
        loc == uav.location
    IN  (IF uav.id = <<>> THEN 0 ELSE Head(uav.id))
        + 2 * abs(loc.latitude) + 4 * abs(loc.longitude)
        + 8 * abs(loc.altitude_geo) + 16 * abs(loc.speed_horizontal)

\* the haversine distance in metres, between points of one meridian
calculateDistance(lat1, lon1, lat2, lon2) ==
    100 * (IF lat2 >= lat1 THEN lat2 - lat1 ELSE lat1 - lat2)

\* checkReplayAttack that counts every entry with the same hash, whatever
\* its age
checkReplayAttack_NoWindow(cfg, history, id, message_hash, t) ==
    IF id \notin DOMAIN history THEN <<>>
    ELSE LET hist == history[id]
             duplicate_count ==
                 Cardinality({ i \in 1..Len(hist.message_hashes) :
                     hist.message_hashes[i] = message_hash })
         IN  IF duplicate_count >= cfg.min_duplicate_count
             THEN << Anomaly("REPLAY_ATTACK", "CRITICAL", id,
                             "Duplicate messages detected (possible replay attack)") >>
             ELSE <<>>

\* checkReplayAttack at instant t: the entries of the id's history with the
\* same hash whose age in whole milliseconds is below replay_window_ms
checkReplayAttack(cfg, history, id, message_hash, t) ==
    IF id \notin DOMAIN history THEN <<>>
    ELSE LET hist == history[id]
             duplicate_count ==
                 Cardinality({ i \in 1..Len(hist.message_hashes) :
                     /\ hist.message_hashes[i] = message_hash
                     /\ ElapsedMs(t, hist.timestamps[i])
                            < cfg.replay_window_ms })
         IN  IF duplicate_count >= cfg.min_duplicate_count
             THEN << Anomaly("REPLAY_ATTACK", "CRITICAL", id,
                             "Duplicate messages detected (possible replay attack)") >>
             ELSE <<>>

\* checkSpeedAnomalies with time_delta_s = dticks clock ticks: a quotient
\* x / time_delta_s > limit is compared as x * ticks per second > limit * dticks
checkSpeedAnomalies(cfg, id, current, previous, dticks) ==
    LET abs(x) == IF x < 0 THEN -x ELSE x
        per_s == 1000 * TicksPerMs
        distance == calculateDistance(previous.latitude, previous.longitude,
                                      current.latitude, current.longitude)
        altitude_change == abs(current.altitude_geo - previous.altitude_geo)
        speed_change == abs(current.speed_horizontal - previous.speed_horizontal)
        horizontal ==
            IF distance * per_s > cfg.max_horizontal_speed * dticks
            THEN << Anomaly("SPEED_IMPOSSIBLE",
                            IF distance * per_s
                                 > cfg.max_horizontal_speed * 2 * dticks
                            THEN "CRITICAL" ELSE "WARNING", id,
                            "Calculated horizontal speed exceeds physical limits") >>
            ELSE <<>>
        vertical ==
            IF altitude_change * per_s > cfg.max_vertical_speed * dticks
            THEN << Anomaly("ALTITUDE_SPIKE",
                            IF altitude_change * per_s
                                 > cfg.max_vertical_speed * 2 * dticks
                            THEN "CRITICAL" ELSE "WARNING", id,
                            "Vertical speed exceeds physical limits") >>
            ELSE <<>>
        acceleration ==
            IF /\ current.speed_horizontal >= 0
               /\ previous.speed_horizontal >= 0
               /\ speed_change * per_s > cfg.max_acceleration * dticks
            THEN << Anomaly("SPEED_IMPOSSIBLE", "WARNING", id,
                            "Acceleration exceeds reasonable limits") >>
            ELSE <<>>
    IN  IF dticks <= 0 THEN <<>>
        ELSE horizontal \o vertical \o acceleration

\* checkPositionAnomalies: distance > max_position_jump_m and
\* distance > max_horizontal_speed * time_delta_s * 1.5
checkPositionAnomalies(cfg, id, current, previous, dticks) ==
    LET distance == calculateDistance(previous.latitude, previous.longitude,
                                      current.latitude, current.longitude)
    IN  IF /\ distance > cfg.max_position_jump_m
           /\ distance * 2 * 1000 * TicksPerMs
                > 3 * cfg.max_horizontal_speed * dticks
        THEN << Anomaly("POSITION_JUMP", "CRITICAL", id,
                        "Position jumped impossibly far") >>
        ELSE <<>>

\* std::log10(std::max(1.0, distance)) in thousandths, for the distances
\* between the positions the detector is fed
Log10Thousandths(distance) ==
    CASE distance <= 1 -> 0
      [] distance = 100 -> 2000
      [] distance = 1900 -> 3279
      [] distance = 2000 -> 3301

\* checkSignalAnomaly: avg_rssi is sum / n, so |rssi - avg| > x is compared
\* as |rssi * n - sum| > x * n; expected_rssi_change is 25 * log10(distance)
\* and the tolerance factor 1.3
checkSignalAnomaly(cfg, history, id, current_rssi, location) ==
    IF id \notin DOMAIN history \/ Len(history[id].rssi_history) < 3 THEN <<>>
    ELSE LET hist == history[id]
             n == Len(hist.rssi_history)
             RECURSIVE Sum(_)
             Sum(q) == IF q = <<>> THEN 0 ELSE Head(q) + Sum(Tail(q))
             d == current_rssi * n - Sum(hist.rssi_history)
             diff_n == IF d < 0 THEN -d ELSE d
             prev_pos == hist.positions[Len(hist.positions)]
             distance == calculateDistance(prev_pos.latitude, prev_pos.longitude,
                                           location.latitude, location.longitude)
         IN  IF /\ diff_n > cfg.min_rssi_change * n
                /\ hist.positions # <<>>
                /\ diff_n * 40000 > 1300 * Log10Thousandths(distance) * n
             THEN << Anomaly("SIGNAL_ANOMALY", "WARNING", id,
                             "RSSI change inconsistent with position change") >>
             ELSE <<>>

\* the window test of analyze without its upper end
WithinGap_NoUpperEnd(cfg, dticks) == dticks > 0

\* time_delta > 0.0 && time_delta < config_.max_timestamp_gap_ms / 1000.0
WithinGap(cfg, dticks) ==
    dticks > 0 /\ dticks < cfg.max_timestamp_gap_ms * TicksPerMs

\* AnomalyDetector::clearUAV that erases nothing
AD_clearUAV_KeepsAll(det, id) == det

\* AnomalyDetector::clearUAV(id)
AD_clearUAV(det, id) == [det EXCEPT !.history_ = Erase(@, id)]

\* clear() that empties the histories and keeps the counters
AD_clear_KeepsCounts(det) == [det EXCEPT !.history_ = NewDetector.history_]

\* AnomalyDetector::clear()
AD_clear(det) == NewDetector

\* AnomalyDetector::getAnomalyCount(type)
getAnomalyCount(det, type) ==
    IF type \in DOMAIN det.anomaly_counts_ THEN det.anomaly_counts_[type]
    ELSE 0

\* UAVHistory::max_history
max_history == 100

\* UAVHistory::trim() that pops from positions only
UAVHistory_trim_PositionsOnly(h) ==
    IF Len(h.positions) > max_history
    THEN [h EXCEPT !.positions = SubSeq(@, Len(@) - max_history + 1, Len(@))]
    ELSE h

\* UAVHistory::trim(): while positions holds more than max_history entries,
\* pop the front of all four deques
UAVHistory_trim(h) ==
    IF Len(h.positions) > max_history
    THEN LET excess == Len(h.positions) - max_history
         IN  [f \in DOMAIN h |-> SubSeq(h[f], excess + 1, Len(h[f]))]
    ELSE h

\* UAVHistory::addPosition(loc, rssi, time, msg_hash)
UAVHistory_addPosition(h, loc, rssi, time, msg_hash) ==
    UAVHistory_trim([positions |-> Append(h.positions, loc),
                     rssi_history |-> Append(h.rssi_history, rssi),
                     timestamps |-> Append(h.timestamps, time),
                     message_hashes |-> Append(h.message_hashes, msg_hash)])

\* AnomalyDetector::analyze(uav, rssi) at instant t on the detector det;
\* returns [det, anomalies]
AD_analyze(cfg, det, uav, rssi, t) ==
    IF uav.id = <<>> THEN [det |-> det, anomalies |-> <<>>]
    ELSE
    LET id == uav.id
        msg_hash == hashMessage(uav)
        \* history_[uav.id] creates the entry
        hist == IF id \in DOMAIN det.history_ THEN det.history_[id]
                ELSE EmptyHistory
        history == Put(det.history_, id, hist)
        n == Len(hist.positions)
        replay == checkReplayAttack(cfg, history, id, msg_hash, t)
        compared == hist.positions # <<>> /\ uav.location.valid
        kinematic ==
            IF compared /\ WithinGap(cfg, t - hist.timestamps[n])
            THEN checkSpeedAnomalies(cfg, id, uav.location, hist.positions[n],
                                     t - hist.timestamps[n])
                 \o checkPositionAnomalies(cfg, id, uav.location,
                                           hist.positions[n],
                                           t - hist.timestamps[n])
            ELSE <<>>
        signal == IF compared
                  THEN checkSignalAnomaly(cfg, history, id, rssi, uav.location)
                  ELSE <<>>
        anomalies == replay \o kinematic \o signal
        trimmed == UAVHistory_addPosition(hist, uav.location, rssi, t,
                                          msg_hash)
        types == { anomalies[i].type : i \in 1..Len(anomalies) }
        counted(ty) == Cardinality({ i \in 1..Len(anomalies) :
                                       anomalies[i].type = ty })
    IN  [det |->
           [history_ |-> IF uav.location.valid THEN Put(history, id, trimmed)
                         ELSE history,
            anomaly_counts_ |->
                [ty \in DOMAIN det.anomaly_counts_ \cup types |->
                    (IF ty \in DOMAIN det.anomaly_counts_
                     THEN det.anomaly_counts_[ty] ELSE 0) + counted(ty)],
            total_anomalies_ |-> det.total_anomalies_ + Len(anomalies)],
         anomalies |-> anomalies]

\* ---------------------------------------------------------------------
\* The detector scenario: one AnomalyDetector, its configuration in config,
\* is fed records of two ids while the clock advances; stats holds the
\* detector (det), the detector before the last call (prev), the ids whose
\* history was cleared and that were not analysed since (cleared), whether
\* the last analyze was the first one after its id was cleared (after_clear),
\* the number of analyze calls made and the number of Anomaly records
\* analyze returned since construction or the last clear() (returned).
\* ---------------------------------------------------------------------
\* the clock of the detector scenario runs to MaxDetTime ticks and at most
\* MaxAnalyze records are fed
MaxDetTime == 4
MaxAnalyze == 4

\* limits scaled to a clock of milliseconds: 150 m, 50 m and 30 m/s per
\* millisecond, a replay window of 1 ms and a largest gap of 2 ms
FastAnomalyConfig ==
    [max_horizontal_speed |-> 150000, max_vertical_speed |-> 50000,
     max_acceleration |-> 30000, max_position_jump_m |-> 1000,
     replay_window_ms |-> 1, min_duplicate_count |-> 2,
     min_rssi_change |-> 20, max_timestamp_gap_ms |-> 2]

\* the record the decoder returns for a Basic ID frame: an id, no location
BasicIdRecord(id) == ASTM_decode(LegacyAdv(BasicIDMsg(id)), NewUAVObject(0)).uav

\* a record with a position: latitude in steps, altitude_geo, speed_horizontal
LocatedRecord(id, lat, alt, speed) ==
    [RecNone(id, -60) EXCEPT
        !.location = [LocationV(lat) EXCEPT !.altitude_geo = alt,
                                            !.speed_horizontal = speed]]

\* the calls analyze(uav, rssi) the host makes
DetInputs ==
    { [uav |-> LocatedRecord(id, 0, 0, 0), rssi |-> -60] : id \in Ids }
    \cup { [uav |-> LocatedRecord(IdA, 20, 60, 0), rssi |-> -60],
           [uav |-> LocatedRecord(IdA, 1, 0, 40), rssi |-> -60],
           [uav |-> LocatedRecord(IdA, 0, 0, 0), rssi |-> -30],
           [uav |-> BasicIdRecord(IdA), rssi |-> -60] }

\* AnomalyDetector::analyze(uav, rssi)
DetAnalyze ==
    \E in \in DetInputs :
        /\ stats.calls < MaxAnalyze
        /\ LET r == AD_analyze(config, stats.det, in.uav, in.rssi, now) IN
             /\ lastOp' = Call("analyze",
                               [in EXCEPT !.uav.last_seen = 0], r.anomalies)
             /\ stats' = [det |-> r.det, prev |-> stats.det,
                          cleared |-> stats.cleared \ {in.uav.id},
                          after_clear |-> in.uav.id \in stats.cleared,
                          calls |-> stats.calls + 1,
                          returned |-> stats.returned + Len(r.anomalies)]
        /\ fired' = <<>>
        /\ UNCHANGED <<config, uavs_, timeout_, on_new_uav_, on_uav_update_,
                       on_uav_timeout_, now>>

\* AnomalyDetector::clear()
DetClear ==
    /\ lastOp' = Call("clear", <<>>, <<>>)
    /\ stats' = [stats EXCEPT !.det = AD_clear(stats.det), !.prev = stats.det,
                              !.cleared = @ \cup DOMAIN stats.det.history_,
                              !.returned = 0]
    /\ fired' = <<>>
    /\ UNCHANGED <<config, uavs_, timeout_, on_new_uav_, on_uav_update_,
                   on_uav_timeout_, now>>

\* AnomalyDetector::clearUAV(id)
DetClearUAV ==
    \E id \in Ids :
        /\ lastOp' = Call("clearUAV", id, <<>>)
        /\ stats' = [stats EXCEPT !.det = AD_clearUAV(stats.det, id),
                                  !.prev = stats.det,
                                  !.cleared = @ \cup ({id} \cap
                                                DOMAIN stats.det.history_)]
        /\ fired' = <<>>
        /\ UNCHANGED <<config, uavs_, timeout_, on_new_uav_, on_uav_update_,
                       on_uav_timeout_, now>>

\* steady_clock advances by one tick
DetTick ==
    /\ now < MaxDetTime
    /\ now' = now + 1
    /\ lastOp' = Call("tick", <<>>, <<>>)
    /\ fired' = <<>>
    /\ UNCHANGED <<config, uavs_, timeout_, on_new_uav_, on_uav_update_,
                   on_uav_timeout_, stats>>

InitDet ==
    /\ config = FastAnomalyConfig
    /\ uavs_ = EmptyMap
    /\ timeout_ = 0
    /\ on_new_uav_ = FALSE
    /\ on_uav_update_ = FALSE
    /\ on_uav_timeout_ = FALSE
    /\ now = 0
    /\ lastOp = Call("init", <<>>, <<>>)
    /\ fired = <<>>
    /\ stats = [det |-> NewDetector, prev |-> NewDetector, cleared |-> {},
                after_clear |-> FALSE, calls |-> 0, returned |-> 0]

NextDet == DetAnalyze \/ DetClear \/ DetClearUAV \/ DetTick

SpecDet == InitDet /\ [][NextDet]_vars

\* ---------------------------------------------------------------------
\* The replay scenario: one record, stats.rec, is handed to analyze up to
\* MaxReplays times while the clock advances; stats holds the detector, the
\* number of calls, the instants of the first and of the last call, the
\* smallest distance in ticks between two consecutive calls (none yet:
\* MaxDetTime + 1) and the number of replay_attack anomalies returned.
\* ---------------------------------------------------------------------
MaxReplays == 5

\* the default configuration, and short replay windows with thresholds of
\* 0, 1 and 2 duplicates
ReplayConfigs ==
    { DefaultAnomalyConfig }
    \cup { [FastAnomalyConfig EXCEPT !.min_duplicate_count = n] : n \in 0..2 }

\* AnomalyDetector::analyze(stats.rec, -60)
ReplayAnalyze ==
    /\ stats.calls < MaxReplays
    /\ LET r == AD_analyze(config, stats.det, stats.rec, -60, now) IN
         /\ lastOp' = Call("analyze", [uav |-> stats.rec, rssi |-> -60],
                           r.anomalies)
         /\ stats' =
              [stats EXCEPT
                 !.det = r.det,
                 !.calls = @ + 1,
                 !.first = IF stats.calls = 0 THEN now ELSE @,
                 !.last = now,
                 !.min_gap = IF stats.calls > 0 /\ now - stats.last < @
                             THEN now - stats.last ELSE @,
                 !.replays = @ + Cardinality(
                     { i \in 1..Len(r.anomalies) :
                         r.anomalies[i].type = "REPLAY_ATTACK" })]
    /\ fired' = <<>>
    /\ UNCHANGED <<config, uavs_, timeout_, on_new_uav_, on_uav_update_,
                   on_uav_timeout_, now>>

InitReplay ==
    /\ config \in ReplayConfigs
    /\ uavs_ = EmptyMap
    /\ timeout_ = 0
    /\ on_new_uav_ = FALSE
    /\ on_uav_update_ = FALSE
    /\ on_uav_timeout_ = FALSE
    /\ now = 0
    /\ lastOp = Call("init", <<>>, <<>>)
    /\ fired = <<>>
    /\ \E rec \in {LocatedRecord(IdA, 1, 0, 40), BasicIdRecord(IdA)} :
         stats = [det |-> NewDetector, rec |-> rec, calls |-> 0, first |-> 0,
                  last |-> 0, min_gap |-> MaxDetTime + 1, replays |-> 0]

NextReplay == ReplayAnalyze \/ DetTick

SpecReplay == InitReplay /\ [][NextReplay]_vars

\* ---------------------------------------------------------------------
\* TrajectoryAnalyzer (src/analysis/trajectory_analyzer.cpp). Latitudes are
\* in steps of 100 m along one meridian as above, altitudes in metres,
\* speeds in m/s and timestamps in ticks; a confidence is in units of
\* 1/30000, an error radius in centimetres. Quotients are cut to whole
\* units where the code keeps a double.
\* ---------------------------------------------------------------------
\* TrajectoryConfig with its default values and the given max_history_points;
\* smoothing_factor (0.3) and stationary_speed_threshold (0.5) are in tenths
TrajectoryConfig(max_history_points) ==
    [max_history_points |-> max_history_points, smoothing_factor |-> 3,
     prediction_horizon_ms |-> 5000, min_movement_m |-> 1,
     stationary_speed_threshold |-> 5]

\* TrajectoryPoint(lat, lon, alt, spd, hdg), stamped with steady_clock::now()
TrajectoryPoint(location, t) ==
    [latitude |-> location.latitude, longitude |-> location.longitude,
     altitude |-> location.altitude_geo, speed |-> location.speed_horizontal,
     heading |-> location.direction, timestamp |-> t]

\* TrajectoryStats{}
NewTrajectoryStats ==
    [total_distance_m |-> 0, max_speed_mps |-> 0, avg_speed_mps |-> 0,
     max_altitude_m |-> 0, min_altitude_m |-> 0, heading_variance |-> 0,
     duration |-> 0, point_count |-> 0]

\* the Trajectory that trajectories_[uav_id] creates, with uav_id assigned
NewTrajectory(uav_id) ==
    [uav_id |-> uav_id, points |-> <<>>, smoothed_points |-> <<>>,
     stats |-> NewTrajectoryStats, pattern |-> "UNKNOWN"]

\* while (points.size() > max_size) points.pop_front()
PopFront(points, max_size) ==
    IF Len(points) > max_size
    THEN SubSeq(points, Len(points) - max_size + 1, Len(points))
    ELSE points

\* Trajectory::addPoint(point, max_size)
Trajectory_addPoint(points, point, max_size) ==
    PopFront(Append(points, point), max_size)

\* the loop of Trajectory::calculateStats from point i on; acc holds
\* max_altitude_m, min_altitude_m, max_speed_mps, total_distance_m and
\* speed_sum
RECURSIVE StatsLoop(_, _, _)
StatsLoop(points, i, acc) ==
    IF i > Len(points) THEN acc
    ELSE LET p == points[i] IN
         StatsLoop(points, i + 1,
            [max_altitude_m |-> IF p.altitude > acc.max_altitude_m
                                THEN p.altitude ELSE acc.max_altitude_m,
             min_altitude_m |-> IF p.altitude < acc.min_altitude_m
                                THEN p.altitude ELSE acc.min_altitude_m,
             max_speed_mps |-> IF p.speed > acc.max_speed_mps
                               THEN p.speed ELSE acc.max_speed_mps,
             total_distance_m |->
                 acc.total_distance_m +
                 (IF i > 1
                  THEN calculateDistance(points[i - 1].latitude,
                                         points[i - 1].longitude,
                                         p.latitude, p.longitude)
                  ELSE 0),
             speed_sum |-> acc.speed_sum + p.speed])

\* Trajectory::calculateStats(): the statistics of the stored raw points;
\* heading_variance is never assigned and duration only from two points on
calculateStats(traj) ==
    IF traj.points = <<>> THEN NewTrajectoryStats
    ELSE LET points == traj.points
             n == Len(points)
             acc == StatsLoop(points, 1,
                       [max_altitude_m |-> points[1].altitude,
                        min_altitude_m |-> points[1].altitude,
                        max_speed_mps |-> 0, total_distance_m |-> 0,
                        speed_sum |-> 0])
         IN  [total_distance_m |-> acc.total_distance_m,
              max_speed_mps |-> acc.max_speed_mps,
              avg_speed_mps |-> acc.speed_sum \div n,
              max_altitude_m |-> acc.max_altitude_m,
              min_altitude_m |-> acc.min_altitude_m,
              heading_variance |-> traj.stats.heading_variance,
              duration |-> IF n >= 2
                           THEN ElapsedMs(points[n].timestamp,
                                          points[1].timestamp) \div 1000
                           ELSE traj.stats.duration,
              point_count |-> n]

\* TrajectoryAnalyzer::calculateHeadingVariance(points): the deviation from
\* the circular mean, 0 for fewer than two points and for points of one
\* heading; two headings are taken as the deviation of opposite courses
calculateHeadingVariance(points) ==
    IF Len(points) < 2 THEN 0
    ELSE IF \A i \in 1..Len(points) : points[i].heading = points[1].heading
         THEN 0
         ELSE 90

\* TrajectoryAnalyzer::analyzePattern(traj), up to the classes told apart by
\* speed, altitude trend and a steady heading; the turn-based classes need
\* the headings of a turning flight
analyzePattern(cfg, traj) ==
    LET points == traj.points
        n == Len(points)
        speed_sum == StatsLoop(points, 1,
                        [max_altitude_m |-> 0, min_altitude_m |-> 0,
                         max_speed_mps |-> 0, total_distance_m |-> 0,
                         speed_sum |-> 0]).speed_sum
        alt_diff == points[n].altitude - points[1].altitude
    IN  IF n < 5 THEN "UNKNOWN"
        ELSE IF 10 * speed_sum < cfg.stationary_speed_threshold * n
             THEN "STATIONARY"
        ELSE IF alt_diff < -10 /\ speed_sum < 5 * n THEN "LANDING"
        ELSE IF alt_diff > 10 /\ speed_sum < 5 * n THEN "TAKEOFF"
        ELSE IF calculateHeadingVariance(points) < 15 THEN "LINEAR"
        ELSE IF calculateHeadingVariance(points) > 60 THEN "ERRATIC"
        ELSE "UNKNOWN"

\* TrajectoryAnalyzer::smoothPoint(raw, prev_smooth):
\* alpha * raw + (1 - alpha) * prev_smooth per component, raw's timestamp
smoothPoint(cfg, raw, prev_smooth) ==
    LET alpha == cfg.smoothing_factor
        mix(a, b) == (alpha * a + (10 - alpha) * b) \div 10
    IN  [latitude |-> mix(raw.latitude, prev_smooth.latitude),
         longitude |-> mix(raw.longitude, prev_smooth.longitude),
         altitude |-> mix(raw.altitude, prev_smooth.altitude),
         speed |-> mix(raw.speed, prev_smooth.speed),
         heading |-> mix(raw.heading, prev_smooth.heading),
         timestamp |-> raw.timestamp]

\* addPosition that takes every location
Ignored_Never(location) == FALSE

\* addPosition: if (!location.valid) return
Ignored(location) == ~location.valid

\* TrajectoryAnalyzer::addPosition(uav_id, location) at instant t. Returns
\* the map of trajectories, whether a point was appended and whether the
\* statistics and the pattern were recomputed.
TA_addPosition(cfg, trajectories, uav_id, location, t) ==
    IF Ignored(location)
    THEN [trajectories_ |-> trajectories, appended |-> FALSE,
          recomputed |-> FALSE]
    ELSE
    LET traj == IF uav_id \in DOMAIN trajectories THEN trajectories[uav_id]
                ELSE NewTrajectory(uav_id)
        point == TrajectoryPoint(location, t)
        n == Len(traj.points)
        near == /\ traj.points # <<>>
                /\ calculateDistance(traj.points[n].latitude,
                                     traj.points[n].longitude,
                                     point.latitude, point.longitude)
                   < cfg.min_movement_m
        raw == Trajectory_addPoint(traj.points, point, cfg.max_history_points)
        smoothed ==
            IF traj.smoothed_points = <<>> THEN <<point>>
            ELSE PopFront(
                    Append(traj.smoothed_points,
                           smoothPoint(cfg, point,
                               traj.smoothed_points[Len(traj.smoothed_points)])),
                    cfg.max_history_points)
        added == [traj EXCEPT !.points = raw, !.smoothed_points = smoothed]
        \* if (traj.points.size() % 10 == 0)
        due == Len(added.points) % 10 = 0
        updated == IF due
                   THEN [added EXCEPT !.stats = calculateStats(added),
                                      !.pattern = analyzePattern(cfg, added)]
                   ELSE added
    IN  IF near
        THEN [trajectories_ |-> Put(trajectories, uav_id, traj),
              appended |-> FALSE, recomputed |-> FALSE]
        ELSE [trajectories_ |-> Put(trajectories, uav_id, updated),
              appended |-> TRUE, recomputed |-> due]

\* PredictedPosition{} with its prediction_time
NewPrediction(t, time_ahead_ms) ==
    [latitude |-> 0, longitude |-> 0, altitude |-> 0, confidence |-> 0,
     error_radius_m |-> 0, prediction_time |-> t + time_ahead_ms * TicksPerMs]

\* the confidence of a projection without the lower end at 0
Confidence_Unclamped(time_ahead_ms) == 30000 - time_ahead_ms

\* std::max(0.0, 1.0 - (prediction_time_s / 30.0)), in units of 1/30000
Confidence(time_ahead_ms) ==
    IF 30000 - time_ahead_ms > 0 THEN 30000 - time_ahead_ms ELSE 0

\* TrajectoryAnalyzer::predictPosition(uav_id, time_ahead_ms) at instant t
predictPosition(trajectories, uav_id, time_ahead_ms, t) ==
    LET pred == NewPrediction(t, time_ahead_ms) IN
    IF uav_id \notin DOMAIN trajectories
       \/ Len(trajectories[uav_id].points) < 2
    THEN pred
    ELSE
    LET traj == trajectories[uav_id]
        points == IF traj.smoothed_points = <<>> THEN traj.points
                  ELSE traj.smoothed_points
    IN  IF Len(points) < 2 THEN pred
        ELSE
        LET p1 == points[Len(points) - 1]
            p2 == points[Len(points)]
            time_diff == p2.timestamp - p1.timestamp
        IN  IF time_diff <= 0
            THEN [pred EXCEPT !.latitude = p2.latitude,
                              !.longitude = p2.longitude,
                              !.altitude = p2.altitude,
                              !.confidence = 15000]
            ELSE
            LET north == p2.latitude >= p1.latitude
                distance == calculateDistance(p1.latitude, p1.longitude,
                                              p2.latitude, p2.longitude)
                \* speed_mps * prediction_time_s, in metres
                predicted_distance ==
                    (distance * time_ahead_ms * TicksPerMs) \div time_diff
                climbs == p2.altitude >= p1.altitude
                climb == IF climbs THEN p2.altitude - p1.altitude
                         ELSE p1.altitude - p2.altitude
                \* alt_rate * prediction_time_s, in metres
                predicted_climb ==
                    (climb * time_ahead_ms * TicksPerMs) \div time_diff
            IN  [pred EXCEPT
                   !.latitude = IF north
                                THEN p2.latitude + predicted_distance \div 100
                                ELSE p2.latitude - predicted_distance \div 100,
                   !.longitude = p2.longitude,
                   !.altitude = IF climbs THEN p2.altitude + predicted_climb
                                ELSE p2.altitude - predicted_climb,
                   !.confidence = Confidence(time_ahead_ms),
                   !.error_radius_m = 10 * predicted_distance
                                      + time_ahead_ms \div 5]

\* TrajectoryAnalyzer::clear()
TA_clear(trajectories) == [k \in {} |-> NewTrajectory(<<>>)]

\* TrajectoryAnalyzer::clearUAV(uav_id)
TA_clearUAV(trajectories, uav_id) == Erase(trajectories, uav_id)

\* ---------------------------------------------------------------------
\* The trajectory scenario: one TrajectoryAnalyzer with its configuration in
\* config; stats holds its map of trajectories (ta), the map before the last
\* call (prev) and, per id, the number of points appended since the id's
\* trajectory was created (appended).
\* ---------------------------------------------------------------------
\* the clock of the trajectory scenario runs to MaxTrajTime ticks; up to
\* MaxPoints points are appended for the first id and MaxOtherPoints for
\* the second
MaxTrajTime == 1
MaxPoints == 20
MaxOtherPoints == 2

\* analyzers that keep 0, 1, 3 and 10 points per trajectory
TrajConfigs == { TrajectoryConfig(n) : n \in {0, 1, 3, 10} }

\* the locations handed to addPosition: one without a position, and two
\* positions 1000 m and 20 m of altitude apart, flown at 4 m/s
TrajLocations ==
    { DefaultLocation,
      LocatedRecord(IdA, 0, 0, 4).location,
      LocatedRecord(IdA, 10, 20, 4).location }

\* the prediction horizons asked for, in milliseconds
Horizons == {0, 10000, 30000, 45000}

\* TrajectoryAnalyzer::addPosition(id, loc)
TrajAdd ==
    \E id \in Ids, loc \in TrajLocations :
        /\ stats.appended[id] < (IF id = IdA THEN MaxPoints ELSE MaxOtherPoints)
        /\ LET r == TA_addPosition(config, stats.ta, id, loc, now) IN
             /\ lastOp' = Call("addPosition",
                               [uav_id |-> id, location |-> loc],
                               [appended |-> r.appended,
                                recomputed |-> r.recomputed])
             /\ stats' = [ta |-> r.trajectories_, prev |-> stats.ta,
                          appended |->
                              [stats.appended EXCEPT
                                  ![id] = IF r.appended THEN @ + 1 ELSE @]]
        /\ fired' = <<>>
        /\ UNCHANGED <<config, uavs_, timeout_, on_new_uav_, on_uav_update_,
                       on_uav_timeout_, now>>

\* TrajectoryAnalyzer::predictPosition(id, dt)
TrajPredict ==
    \E id \in Ids, dt \in Horizons :
        /\ lastOp' = Call("predictPosition",
                          [uav_id |-> id, time_ahead_ms |-> dt],
                          predictPosition(stats.ta, id, dt, now))
        /\ stats' = [stats EXCEPT !.prev = stats.ta]
        /\ fired' = <<>>
        /\ UNCHANGED <<config, uavs_, timeout_, on_new_uav_, on_uav_update_,
                       on_uav_timeout_, now>>

\* TrajectoryAnalyzer::clear()
TrajClear ==
    /\ lastOp' = Call("clear", <<>>, <<>>)
    /\ stats' = [ta |-> TA_clear(stats.ta), prev |-> stats.ta,
                 appended |-> [id \in Ids |-> 0]]
    /\ fired' = <<>>
    /\ UNCHANGED <<config, uavs_, timeout_, on_new_uav_, on_uav_update_,
                   on_uav_timeout_, now>>

\* TrajectoryAnalyzer::clearUAV(id)
TrajClearUAV ==
    \E id \in Ids :
        /\ lastOp' = Call("clearUAV", id, <<>>)
        /\ stats' = [ta |-> TA_clearUAV(stats.ta, id), prev |-> stats.ta,
                     appended |-> [stats.appended EXCEPT ![id] = 0]]
        /\ fired' = <<>>
        /\ UNCHANGED <<config, uavs_, timeout_, on_new_uav_, on_uav_update_,
                       on_uav_timeout_, now>>

\* steady_clock advances by one tick
TrajTick ==
    /\ now < MaxTrajTime
    /\ now' = now + 1
    /\ lastOp' = Call("tick", <<>>, <<>>)
    /\ fired' = <<>>
    /\ UNCHANGED <<config, uavs_, timeout_, on_new_uav_, on_uav_update_,
                   on_uav_timeout_, stats>>

InitTraj ==
    /\ config \in TrajConfigs
    /\ uavs_ = EmptyMap
    /\ timeout_ = 0
    /\ on_new_uav_ = FALSE
    /\ on_uav_update_ = FALSE
    /\ on_uav_timeout_ = FALSE
    /\ now = 0
    /\ lastOp = Call("init", <<>>, <<>>)
    /\ fired = <<>>
    /\ stats = [ta |-> TA_clear(<<>>), prev |-> TA_clear(<<>>),
                appended |-> [id \in Ids |-> 0]]

NextTraj == TrajAdd \/ TrajPredict \/ TrajClear \/ TrajClearUAV \/ TrajTick

SpecTraj == InitTraj /\ [][NextTraj]_vars

\* ---------------------------------------------------------------------
\* The beacon scenario: a parser with the default protocol switches is
\* handed one Wi-Fi beacon, stats.frame, whose body is a list of up to
\* MaxIEs information elements, MaxIEBytes bytes in all. The Basic ID
\* message of IdA travels only in vendor IEs of type 0x0D, the one of IdB
\* only in vendor IEs of another type.
\* ---------------------------------------------------------------------
MaxIEs == 3
MaxIEBytes == 45

\* a Vendor-Specific IE: id 221, length, the ASTM OUI, a vendor type, data
VendorIE(type, data) ==
    <<IE_VENDOR_SPECIFIC, 4 + Len(data)>> \o WIFI_OUI_FA \o <<type>> \o data

\* an empty SSID, a vendor IE of another OUI, Remote ID vendor IEs with and
\* without a message, and a vendor IE with the ASTM OUI and type 0x0E
BeaconIEs ==
    { <<0, 0>>, <<IE_VENDOR_SPECIFIC, 3, 0, 0, 0>>,
      VendorIE(WIFI_VENDOR_TYPE, BasicIDMsg(IdA)),
      VendorIE(WIFI_VENDOR_TYPE, <<>>),
      VendorIE(WIFI_VENDOR_TYPE + 1, BasicIDMsg(IdB)) }

BeaconFrames ==
    { Frame(BeaconFrame(Flatten(s)), TR_WIFI_BEACON) :
        s \in { l \in UNION { [1..n -> BeaconIEs] : n \in 1..MaxIEs } :
                  Len(Flatten(l)) <= MaxIEBytes } }

\* RemoteIDParser::parse(stats.frame) at instant now
BeaconParse ==
    /\ ParseOutcome(stats.frame,
                    RemoteIDParser_parse(config, Stamp(stats.frame, now), now),
                    MaxCount)
    /\ UNCHANGED stats

InitBeacon ==
    /\ config = DupConfig
    /\ uavs_ = EmptyMap
    /\ timeout_ = config.uav_timeout_ms
    /\ on_new_uav_ = FALSE
    /\ on_uav_update_ = FALSE
    /\ on_uav_timeout_ = FALSE
    /\ now = 0
    /\ lastOp = Call("init", <<>>, <<>>)
    /\ fired = <<>>
    /\ \E f \in BeaconFrames : stats = [frame |-> f]

NextBeacon == BeaconParse \/ Tick

SpecBeacon == InitBeacon /\ [][NextBeacon]_vars

\* ---------------------------------------------------------------------
\* The history scenario: one AnomalyDetector with the default configuration
\* is fed records of one id until its history has evicted; stats holds the
\* detector (det), the detector before the last call (prev) and the number
\* of analyze calls made. The record and the instant vary over the first
\* MaxVaried calls, whose entries are the ones evicted.
\* ---------------------------------------------------------------------
MaxHistCalls == 103
MaxVaried == 3

\* two located records of one id and the record of a Basic ID frame
HistInputs ==
    { [uav |-> LocatedRecord(IdA, 0, 0, 0), rssi |-> -60],
      [uav |-> LocatedRecord(IdA, 1, 0, 40), rssi |-> -50],
      [uav |-> BasicIdRecord(IdA), rssi |-> -60] }

\* AnomalyDetector::analyze(uav, rssi)
HistAnalyze ==
    \E in \in HistInputs :
        /\ stats.calls < MaxHistCalls
        /\ stats.calls >= MaxVaried => in = [uav |-> LocatedRecord(IdA, 0, 0, 0),
                                             rssi |-> -60]
        /\ LET r == AD_analyze(config, stats.det, in.uav, in.rssi, now) IN
             /\ lastOp' = Call("analyze", [in EXCEPT !.uav.last_seen = 0],
                               Len(r.anomalies))
             /\ stats' = [det |-> r.det, prev |-> stats.det,
                          calls |-> stats.calls + 1]
        /\ fired' = <<>>
        /\ UNCHANGED <<config, uavs_, timeout_, on_new_uav_, on_uav_update_,
                       on_uav_timeout_, now>>

\* steady_clock advances by one tick between two of the first calls
HistTick ==
    /\ stats.calls < MaxVaried
    /\ DetTick

InitHist ==
    /\ config = DefaultAnomalyConfig
    /\ uavs_ = EmptyMap
    /\ timeout_ = 0
    /\ on_new_uav_ = FALSE
    /\ on_uav_update_ = FALSE
    /\ on_uav_timeout_ = FALSE
    /\ now = 0
    /\ lastOp = Call("init", <<>>, <<>>)
    /\ fired = <<>>
    /\ stats = [det |-> NewDetector, prev |-> NewDetector, calls |-> 0]

NextHist == HistAnalyze \/ HistTick

SpecHist == InitHist /\ [][NextHist]_vars

\* ---------------------------------------------------------------------
\* BitReader (src/utils/bit_reader.cpp). size_t is SIZE_BITS wide: sums of
\* sizes are taken modulo 2^SIZE_BITS, as unsigned arithmetic does. A read
\* returns [reader, status, value, overrun]: status is "ok", "out_of_range"
\* or "invalid_argument" (the exception thrown) or "fault" (the process
\* died); overrun tells that bytes past the buffer were asked for.
\* ---------------------------------------------------------------------
SIZE_BITS == 5

\* unsigned size_t arithmetic
SizeWrap(n) == n % (2 ^ SIZE_BITS)

\* BitReader::BitReader(data, length)
BitReader(data) ==
    [data_ |-> data, length_ |-> Len(data), pos_ |-> 0, bit_pos_ |-> 0]

\* throw std::out_of_range("BitReader: buffer underflow")
BR_Underflow(r) ==
    [reader |-> r, status |-> "out_of_range", value |-> <<>>,
     overrun |-> FALSE]

\* a read that returned value and left the reader as r
BR_Ok(r, value) ==
    [reader |-> r, status |-> "ok", value |-> value, overrun |-> FALSE]

\* BitReader::readU8()
BR_readU8(r) ==
    IF r.pos_ >= r.length_ THEN BR_Underflow(r)
    ELSE BR_Ok([r EXCEPT !.pos_ = SizeWrap(@ + 1)], At(r.data_, r.pos_))

\* BitReader::readU16()
BR_readU16(r) ==
    IF SizeWrap(r.pos_ + 2) > r.length_ THEN BR_Underflow(r)
    ELSE BR_Ok([r EXCEPT !.pos_ = SizeWrap(@ + 2)], readLE16(r.data_, r.pos_))

\* BitReader::readU32()
BR_readU32(r) ==
    IF SizeWrap(r.pos_ + 4) > r.length_ THEN BR_Underflow(r)
    ELSE BR_Ok([r EXCEPT !.pos_ = SizeWrap(@ + 4)], readLE32(r.data_, r.pos_))

\* the loop of readBits: bits_read of count bits are in result, kept as its
\* bits from the lowest on
RECURSIVE BR_BitsLoop(_, _, _, _)
BR_BitsLoop(r, count, bits_read, result) ==
    IF ~(bits_read < count) THEN BR_Ok(r, result)
    ELSE IF r.pos_ >= r.length_ THEN BR_Underflow(r)
    ELSE LET bits_available == 8 - r.bit_pos_
             bits_to_read == IF bits_available < count - bits_read
                             THEN bits_available ELSE count - bits_read
             bits == (At(r.data_, r.pos_) \div (2 ^ r.bit_pos_))
                     % (2 ^ bits_to_read)
             bit_pos == r.bit_pos_ + bits_to_read
         IN  BR_BitsLoop(
                 IF bit_pos >= 8
                 THEN [r EXCEPT !.bit_pos_ = 0, !.pos_ = SizeWrap(@ + 1)]
                 ELSE [r EXCEPT !.bit_pos_ = bit_pos],
                 count, bits_read + bits_to_read,
                 result \o [k \in 1..bits_to_read |->
                               (bits \div (2 ^ (k - 1))) % 2])

\* BitReader::readBits(count)
BR_readBits(r, count) ==
    IF count > 32
    THEN [reader |-> r, status |-> "invalid_argument", value |-> <<>>,
          overrun |-> FALSE]
    ELSE LET res == BR_BitsLoop(r, count, 0, <<>>)
         IN  \* the reader keeps the bytes consumed before the exception
             res

\* readBytes, skip: if (pos_ + count > length_)
BR_Crosses(r, count) == SizeWrap(r.pos_ + count) > r.length_

\* BitReader::readBytes(dest, count): the set of possible outcomes. A range
\* that reaches past the buffer through std::copy is undefined: the process
\* dies, or the copy returns with bytes that are not the buffer's.
BR_readBytes(r, count) ==
    IF BR_Crosses(r, count) THEN { BR_Underflow(r) }
    ELSE IF r.pos_ + count <= r.length_
    THEN { BR_Ok([r EXCEPT !.pos_ = SizeWrap(@ + count)],
                 Bytes(r.data_, r.pos_, count)) }
    ELSE { [reader |-> r, status |-> "fault", value |-> <<>>,
            overrun |-> TRUE],
           [reader |-> [r EXCEPT !.pos_ = SizeWrap(@ + count)],
            status |-> "ok", value |-> <<>>, overrun |-> TRUE] }

\* BitReader::skip(count)
BR_skip(r, count) ==
    IF BR_Crosses(r, count) THEN BR_Underflow(r)
    ELSE [reader |-> [r EXCEPT !.pos_ = SizeWrap(@ + count)],
          status |-> "ok", value |-> <<>>,
          overrun |-> r.pos_ + count > r.length_]

\* BitReader::hasMore()
BR_hasMore(r) == r.pos_ < r.length_

\* BitReader::remaining()
BR_remaining(r) == SizeWrap(r.length_ - r.pos_ + 2 ^ SIZE_BITS)

\* BitReader::reset()
BR_reset(r) == [r EXCEPT !.pos_ = 0, !.bit_pos_ = 0]

\* ---------------------------------------------------------------------
\* The reader scenario: one BitReader over a buffer of up to MaxBuffer
\* bytes; stats holds the reader, the reader before the last call (prev) and
\* whether the process died (dead).
\* ---------------------------------------------------------------------
MaxBuffer == 5

\* the buffers read: the first bytes of 12 34 56 78 9A
Buffers == { SubSeq(<<18, 52, 86, 120, 154>>, 1, n) : n \in 0..MaxBuffer }

\* every count a size_t holds
Counts == 0..(2 ^ SIZE_BITS - 1)

\* the reader has returned res to the call op(arg)
BRDone(op, arg, res) ==
    /\ ~stats.dead
    /\ lastOp' = Call(op, arg, [status |-> res.status, value |-> res.value,
                                overrun |-> res.overrun])
    /\ stats' = [reader |-> res.reader, prev |-> stats.reader,
                 dead |-> res.status = "fault"]
    /\ fired' = <<>>
    /\ UNCHANGED <<config, uavs_, timeout_, on_new_uav_, on_uav_update_,
                   on_uav_timeout_, now>>

BRReadU8 == BRDone("readU8", 1, BR_readU8(stats.reader))

BRReadU16 == BRDone("readU16", 2, BR_readU16(stats.reader))

BRReadU32 == BRDone("readU32", 4, BR_readU32(stats.reader))

BRReadBits ==
    \E count \in {0, 1, 3, 8, 12, 32, 33} :
        BRDone("readBits", count, BR_readBits(stats.reader, count))

BRReadBytes ==
    \E count \in Counts :
        \E res \in BR_readBytes(stats.reader, count) :
            BRDone("readBytes", count, res)

BRSkip == \E count \in Counts : BRDone("skip", count, BR_skip(stats.reader, count))

BRRemaining ==
    BRDone("remaining", 0,
           BR_Ok(stats.reader, [remaining |-> BR_remaining(stats.reader),
                                hasMore |-> BR_hasMore(stats.reader)]))

BRReset == BRDone("reset", 0, BR_Ok(BR_reset(stats.reader), <<>>))

InitReader ==
    /\ config = DupConfig
    /\ uavs_ = EmptyMap
    /\ timeout_ = 0
    /\ on_new_uav_ = FALSE
    /\ on_uav_update_ = FALSE
    /\ on_uav_timeout_ = FALSE
    /\ now = 0
    /\ lastOp = Call("init", <<>>, <<>>)
    /\ fired = <<>>
    /\ \E data \in Buffers :
         stats = [reader |-> BitReader(data), prev |-> BitReader(data),
                  dead |-> FALSE]

NextReader ==
    \/ BRReadU8 \/ BRReadU16 \/ BRReadU32 \/ BRReadBits \/ BRReadBytes
    \/ BRSkip \/ BRRemaining \/ BRReset

SpecReader == InitReader /\ [][NextReader]_vars

\* ---------------------------------------------------------------------
\* The removal scenario: a SessionManager that is updated, swept and
\* cleared.  stats.gone maps every id that cleanup() has returned or that
\* clear() has dropped, and that no update has brought back since, to the
\* record it had when it was removed; stats.was_gone is stats.gone before
\* the last call.
\* ---------------------------------------------------------------------
\* gone, with the entries of uavs under the ids of S added
Gone(gone, uavs, S) ==
    [id \in DOMAIN gone \cup S |-> IF id \in S THEN uavs[id] ELSE gone[id]]

RemUpdate ==
    \E u \in UAVInputs, ts \in 0..now :
        LET uav == [u EXCEPT !.last_seen = ts]
            r == SM_update(uavs_, on_new_uav_, on_uav_update_, uav)
        IN  /\ BelowCap(uav, MaxCount)
            /\ uavs_' = r.uavs
            /\ lastOp' = Call("update", uav, r.ret)
            /\ fired' = r.fired
            /\ stats' = [gone |-> Erase(stats.gone, uav.id),
                         was_gone |-> stats.gone]
            /\ UNCHANGED <<config, timeout_, on_new_uav_, on_uav_update_,
                           on_uav_timeout_, now>>

RemCleanup ==
    /\ CleanupCore(TRUE)
    /\ stats' = [gone |-> Gone(stats.gone, uavs_,
                               {lastOp'.ret[i] : i \in 1..Len(lastOp'.ret)}),
                 was_gone |-> stats.gone]

RemClear ==
    /\ LET r == SM_clear(uavs_) IN
         /\ uavs_' = r.uavs
         /\ fired' = r.fired
    /\ lastOp' = Call("clear", <<>>, <<>>)
    /\ stats' = [gone |-> Gone(stats.gone, uavs_, DOMAIN uavs_),
                 was_gone |-> stats.gone]
    /\ UNCHANGED <<config, timeout_, on_new_uav_, on_uav_update_,
                   on_uav_timeout_, now>>

InitRemoval ==
    /\ config = Config(0, TRUE, TRUE, FALSE, FALSE)
    /\ uavs_ = EmptyMap
    /\ timeout_ = 0
    /\ on_new_uav_ = FALSE
    /\ on_uav_update_ = FALSE
    /\ on_uav_timeout_ = FALSE
    /\ now = 0
    /\ lastOp = Call("init", <<>>, <<>>)
    /\ fired = <<>>
    /\ stats = [gone |-> EmptyMap, was_gone |-> EmptyMap]

NextRemoval ==
    \/ RemUpdate
    \/ RemCleanup
    \/ RemClear
    \/ SetOnNewUAV
    \/ SetOnUAVUpdate
    \/ Tick

SpecRemoval == InitRemoval /\ [][NextRemoval]_vars

\* ---------------------------------------------------------------------
\* The threads scenario: NumThreads threads call SessionManager::update on
\* one manager, UpdatesPerThread times each, with no lock around the calls;
\* thread t uses the id stats.ids[t].  update is not atomic: a thread runs
\* uavs_.find, then either the insertion of uavs_[uav.id] = uav (the lookup
\* and node allocation of operator[], then the linking of the node and the
\* increment of the element count) or the merge into the entry found.  The
\* accesses of two threads to uavs_ are unordered, and a write that was
\* prepared against a map another thread has changed since is a data race:
\* the node is linked either behind the current bucket head or behind the
\* one read earlier, and the element count becomes either the current or
\* the earlier count plus one.
\*   stats.pc[t]      where thread t stands in update
\*   stats.is_new[t]  the is_new of the call in progress
\*   stats.it[t]      the entry uavs_.find returned
\*   stats.seen[t]    the keys and the element count operator[] has read
\*   stats.size       the element count uavs_.size() returns
\*   stats.done[t]    the update calls thread t has completed
\*   stats.news[id], stats.updates   the on_new calls per id, the on_update
\*                    calls
\* ---------------------------------------------------------------------
NumThreads == 2
UpdatesPerThread == 2

Threads == 1..NumThreads

\* the record thread t passes to its next update call
ThreadUAV(t) == [RecNone(stats.ids[t], -60 - stats.done[t])
                   EXCEPT !.last_seen = now]

\* the entries of m under the keys of S
Restrict(m, S) == [k \in DOMAIN m \cap S |-> m[k]]

ThrStep(op, t, ret, f) ==
    /\ lastOp' = Call(op, t, ret)
    /\ fired' = f
    /\ UNCHANGED <<config, timeout_, on_new_uav_, on_uav_update_,
                   on_uav_timeout_, now>>

\* auto it = uavs_.find(uav.id); bool is_new = (it == uavs_.end());
ThrFind(t) ==
    /\ stats.pc[t] = "idle"
    /\ stats.done[t] < UpdatesPerThread
    /\ LET it == SM_getUAV(uavs_, stats.ids[t]) IN
         /\ stats' = [stats EXCEPT !.pc[t] = IF it = <<>> THEN "insert"
                                             ELSE "merge",
                                   !.is_new[t] = (it = <<>>),
                                   !.it[t] = it]
         /\ uavs_' = uavs_
         /\ ThrStep("find", t, it = <<>>, <<>>)

\* uavs_[uav.id]: operator[] looks the key up and, not finding it, prepares
\* a node against the bucket and the element count it has read
ThrInsertBegin(t) ==
    /\ stats.pc[t] = "insert"
    /\ stats' = [stats EXCEPT !.pc[t] = "link",
                              !.seen[t] = [keys |-> DOMAIN uavs_,
                                           size |-> stats.size]]
    /\ uavs_' = uavs_
    /\ ThrStep("operator[]", t, stats.ids[t] \in DOMAIN uavs_, <<>>)

\* the maps a thread can leave that links the entry (id, uav) with the
\* keys and the element count `seen` read before
Linked(uavs, size, seen, id, uav) ==
    IF id \in seen.keys
    THEN {[uavs |-> Put(uavs, id, uav), size |-> size]}
    ELSE {[uavs |-> Put(m, id, uav), size |-> s + 1] :
            m \in {uavs, Restrict(uavs, seen.keys)},
            s \in {size, seen.size}}

\* uavs_[uav.id] = uav completes; if (on_new_uav_) on_new_uav_(uav);
\* return is_new;
ThrInsertEnd(t) ==
    /\ stats.pc[t] = "link"
    /\ LET uav == ThreadUAV(t) IN
       \E r \in Linked(uavs_, stats.size, stats.seen[t], uav.id, uav) :
         /\ uavs_' = r.uavs
         /\ stats' = [stats EXCEPT !.pc[t] = "idle",
                                   !.size = r.size,
                                   !.done[t] = @ + 1,
                                   !.news[uav.id] =
                                       @ + (IF on_new_uav_ THEN 1 ELSE 0)]
         /\ ThrStep("update", t, TRUE,
                    IF on_new_uav_
                    THEN <<Invocation("on_new", uav, r.uavs)>> ELSE <<>>)

\* the else branch: the merge into it->second, which is the entry of the
\* map unless another thread has unlinked it; if (on_uav_update_)
\* on_uav_update_(existing); return is_new;
ThrMerge(t) ==
    /\ stats.pc[t] = "merge"
    /\ LET uav == ThreadUAV(t)
           existing == IF uav.id \in DOMAIN uavs_
                       THEN Merge(uavs_[uav.id], uav)
                       ELSE Merge(stats.it[t][1], uav)
           m == IF uav.id \in DOMAIN uavs_
                THEN Put(uavs_, uav.id, existing) ELSE uavs_
       IN  /\ uavs_' = m
           /\ stats' = [stats EXCEPT !.pc[t] = "idle",
                                     !.done[t] = @ + 1,
                                     !.updates =
                                       @ + (IF on_uav_update_ THEN 1 ELSE 0)]
           /\ ThrStep("update", t, FALSE,
                      IF on_uav_update_
                      THEN <<Invocation("on_update", existing, m)>>
                      ELSE <<>>)

AllJoinable ==
    \A t \in Threads : stats.pc[t] = "idle" /\ stats.done[t] = UpdatesPerThread

\* every thread is joined; the caller reads count() and getUAV of each id
ThrJoin ==
    /\ AllJoinable
    /\ stats' = [stats EXCEPT !.pc = [t \in Threads |-> "joined"]]
    /\ uavs_' = uavs_
    /\ ThrStep("join", 0,
               [count |-> stats.size,
                found |-> {id \in Ids : SM_getUAV(uavs_, id) # <<>>}],
               <<>>)

InitThreads ==
    /\ config = Config(0, TRUE, TRUE, FALSE, FALSE)
    /\ uavs_ = EmptyMap
    /\ timeout_ = 30000
    /\ on_new_uav_ = TRUE
    /\ on_uav_update_ = TRUE
    /\ on_uav_timeout_ = FALSE
    /\ now = 0
    /\ lastOp = Call("init", <<>>, <<>>)
    /\ fired = <<>>
    /\ \E ids \in {<<IdA, IdB>>, <<IdA, IdA>>} :
         stats = [ids |-> ids,
                  pc |-> [t \in Threads |-> "idle"],
                  is_new |-> [t \in Threads |-> FALSE],
                  it |-> [t \in Threads |-> <<>>],
                  seen |-> [t \in Threads |-> [keys |-> {}, size |-> 0]],
                  size |-> 0,
                  done |-> [t \in Threads |-> 0],
                  news |-> [id \in Ids |-> 0],
                  updates |-> 0]

NextThreads ==
    \/ \E t \in Threads : ThrFind(t)
    \/ \E t \in Threads : ThrInsertBegin(t)
    \/ \E t \in Threads : ThrInsertEnd(t)
    \/ \E t \in Threads : ThrMerge(t)
    \/ ThrJoin

SpecThreads == InitThreads /\ [][NextThreads]_vars

\* ---------------------------------------------------------------------
\* Properties of the session manager and the parser facade
\* ---------------------------------------------------------------------
\* the ids of the records a callback list was invoked with
FiredIds(f) == {f[i].uav.id : i \in 1..Len(f)}

\* the elements of a sequence
Range(q) == {q[i] : i \in 1..Len(q)}

\* C1: every SessionManager::update call with a non-empty id raises exactly
\* one lifecycle event: on_new if and only if the id was absent before the
\* call, on_update otherwise, never both; the event reaches the callback
\* registered in that slot (an empty slot notifies nobody), and it is raised
\* when the map already holds the installed or merged record, which is the
\* map the call returns with.
C1_OneEventPerUpdate ==
    [][ (lastOp'.op = "update" /\ lastOp'.arg.id # <<>>) =>
          LET u == lastOp'.arg
              absent == u.id \notin DOMAIN uavs_
              slot == IF absent THEN on_new_uav_ ELSE on_uav_update_
          IN  /\ lastOp'.ret = absent
              /\ Len(fired') = (IF slot THEN 1 ELSE 0)
              /\ \A i \in 1..Len(fired') :
                   /\ fired'[i].cb = (IF absent THEN "on_new" ELSE "on_update")
                   /\ fired'[i].map = uavs_'
                   /\ u.id \in DOMAIN fired'[i].map
                   /\ fired'[i].uav = fired'[i].map[u.id]
                   /\ fired'[i].map[u.id].last_seen = u.last_seen
                   /\ absent => fired'[i].map[u.id] = u
                   /\ ~absent => fired'[i].map[u.id].message_count
                                   = uavs_[u.id].message_count + 1
      ]_vars

\* C1 witness: an update of a tracked id has invoked on_update, once
C1_Witness ==
    /\ lastOp.op = "update"
    /\ lastOp.ret = FALSE
    /\ Len(fired) = 1
    /\ fired[1].cb = "on_update"
    /\ fired[1].uav.message_count = 2

\* C2: in the repeated-frame scenario, as long as cleanup has not run past
\* the expiry, N >= 1 parses of the frame have produced exactly one on_new,
\* exactly N - 1 on_update and no on_timeout, and the session holds exactly
\* one entry, the frame's id.
C2_DuplicateFrames ==
    (~stats.swept /\ stats.parses >= 1) =>
        /\ stats.on_new = 1
        /\ stats.on_update = stats.parses - 1
        /\ stats.on_timeout = 0
        /\ Cardinality(DOMAIN uavs_) = 1
        /\ \A id \in DOMAIN uavs_ :
             uavs_[id].message_count = stats.parses

\* C2 witness: the frame was fed three times, the entry is past its expiry,
\* and cleanup has not swept it
C2_Witness ==
    /\ stats.parses >= 3
    /\ ~stats.swept
    /\ stats.on_update = stats.parses - 1
    /\ \E id \in DOMAIN uavs_ : AgedOut(uavs_[id])

\* C3: a merge keeps each of location, system, self_id, operator_id when the
\* incoming part is invalid and overwrites it when the incoming part is
\* valid; auth_data is overwritten only by non-empty incoming auth_data; a
\* stored part that is valid stays valid while the entry stays in the map.
C3_MergeKeepsValid ==
    [][ /\ (lastOp'.op = "update" /\ lastOp'.arg.id \in DOMAIN uavs_) =>
             LET u == lastOp'.arg
                 old == uavs_[u.id]
                 new == uavs_'[u.id]
             IN  /\ new.location =
                      (IF u.location.valid THEN u.location ELSE old.location)
                 /\ new.system =
                      (IF u.system.valid THEN u.system ELSE old.system)
                 /\ new.self_id =
                      (IF u.self_id.valid THEN u.self_id ELSE old.self_id)
                 /\ new.operator_id =
                      (IF u.operator_id.valid THEN u.operator_id
                       ELSE old.operator_id)
                 /\ new.auth_data =
                      (IF u.auth_data # <<>> THEN u.auth_data
                       ELSE old.auth_data)
        /\ \A id \in DOMAIN uavs_ \cap DOMAIN uavs_' :
             /\ uavs_[id].location.valid => uavs_'[id].location.valid
             /\ uavs_[id].system.valid => uavs_'[id].system.valid
             /\ uavs_[id].self_id.valid => uavs_'[id].self_id.valid
             /\ uavs_[id].operator_id.valid => uavs_'[id].operator_id.valid
      ]_vars

\* C3 witness: a record with no valid part was merged into an entry whose
\* parts are valid
C3_Witness ==
    /\ lastOp.op = "update"
    /\ lastOp.ret = FALSE
    /\ lastOp.arg.id \in DOMAIN uavs_
    /\ ~lastOp.arg.location.valid
    /\ ~lastOp.arg.self_id.valid
    /\ lastOp.arg.auth_data = <<>>
    /\ uavs_[lastOp.arg.id].location.valid
    /\ uavs_[lastOp.arg.id].self_id.valid
    /\ uavs_[lastOp.arg.id].auth_data # <<>>

\* C4 (as amended): cleanup removes exactly the entries whose age
\* (now - last_seen), truncated to whole milliseconds, exceeds the
\* configured expiry; it invokes on_timeout exactly once for each removed
\* entry and for no other (when a callback is registered), returns exactly
\* the ids of the removed entries, and leaves every other entry unchanged.
C4_CleanupExact ==
    [][ lastOp'.op = "cleanup" =>
          LET gone == {id \in DOMAIN uavs_ : AgedOut(uavs_[id])} IN
            /\ DOMAIN uavs_' = DOMAIN uavs_ \ gone
            /\ \A id \in DOMAIN uavs_' : uavs_'[id] = uavs_[id]
            /\ Len(lastOp'.ret) = Cardinality(gone)
            /\ Range(lastOp'.ret) = gone
            /\ \A i \in 1..Len(fired') :
                 /\ fired'[i].cb = "on_timeout"
                 /\ fired'[i].uav = uavs_[fired'[i].uav.id]
            /\ on_uav_timeout_ =>
                 /\ Len(fired') = Cardinality(gone)
                 /\ FiredIds(fired') = gone
            /\ ~on_uav_timeout_ => fired' = <<>>
      ]_vars

\* C4 (as stated): cleanup removes exactly the entries whose age
\* (now - last_seen) exceeds the configured expiry, invokes on_timeout
\* exactly once for each of them and for no other, returns exactly their
\* ids, and leaves every entry within the expiry unchanged.
C4_AsStated ==
    [][ lastOp'.op = "cleanup" =>
          LET gone == {id \in DOMAIN uavs_ : ExceedsExpiry(uavs_[id])} IN
            /\ DOMAIN uavs_' = DOMAIN uavs_ \ gone
            /\ \A id \in DOMAIN uavs_' : uavs_'[id] = uavs_[id]
            /\ Len(lastOp'.ret) = Cardinality(gone)
            /\ Range(lastOp'.ret) = gone
            /\ on_uav_timeout_ =>
                 /\ Len(fired') = Cardinality(gone)
                 /\ FiredIds(fired') = gone
      ]_vars

\* C4 witness: a cleanup removed one entry, notified it, and kept another
\* whose age exceeds the expiry by less than a millisecond
C4_Witness ==
    /\ lastOp.op = "cleanup"
    /\ Len(lastOp.ret) = 1
    /\ Len(fired) = 1
    /\ fired[1].cb = "on_timeout"
    /\ Cardinality(DOMAIN uavs_) = 1
    /\ \E id \in DOMAIN uavs_ : ExceedsExpiry(uavs_[id])

\* C5: on_timeout is invoked only by cleanup: whatever call was made last,
\* if it invoked on_timeout it was cleanup.
C5_TimeoutOnlyFromCleanup ==
    \A i \in 1..Len(fired) :
        fired[i].cb = "on_timeout" => lastOp.op = "cleanup"

\* C5 witness: a cleanup has invoked on_timeout
C5_Witness ==
    /\ lastOp.op = "cleanup"
    /\ Len(fired) >= 1
    /\ fired[1].cb = "on_timeout"

\* C6: an entry that is past its expiry stays in the map and stays visible
\* through getUAV, getActiveUAVs and getActiveCount across every call other
\* than cleanup and clear, the passage of time and the parsing of other
\* frames included.
C6_SoftExpiry ==
    [][ \A id \in DOMAIN uavs_ :
          (ExceedsExpiry(uavs_[id])
             /\ lastOp'.op \notin {"cleanup", "clear"}) =>
              /\ id \in DOMAIN uavs_'
              /\ SM_getUAV(uavs_', id) = <<uavs_'[id]>>
              /\ SM_count(uavs_') >= 1
              /\ \A r \in SM_getActiveUAVs(uavs_') :
                   \E i \in 1..Len(r) : r[i].id = id
              /\ (lastOp'.op = "getUAV" /\ lastOp'.arg = id) =>
                   lastOp'.ret # <<>>
              /\ lastOp'.op = "getActiveUAVs" =>
                   \E i \in 1..Len(lastOp'.ret) : lastOp'.ret[i].id = id
              /\ lastOp'.op = "getActiveCount" => lastOp'.ret >= 1
      ]_vars

\* C6 witness: the frame of another id was parsed and tracked while an
\* entry past its expiry stayed in the map
C6_Witness ==
    /\ lastOp.op = "parse"
    /\ lastOp.ret.success
    /\ lastOp.ret.uav.id \in DOMAIN uavs_
    /\ \E id \in DOMAIN uavs_ :
         /\ id # lastOp.ret.uav.id
         /\ AgedOut(uavs_[id])

\* C7: a parse that returns is_remote_id = false returns success = false,
\* leaves the session map as it was and invokes no callback; the empty
\* payload, and every payload when no protocol is enabled, are such parses.
C7_NotRemoteIdNoEffect ==
    [][ lastOp'.op = "parse" =>
          /\ ~lastOp'.ret.is_remote_id =>
               /\ ~lastOp'.ret.success
               /\ uavs_' = uavs_
               /\ fired' = <<>>
          /\ lastOp'.arg.payload = <<>> => ~lastOp'.ret.is_remote_id
          /\ (~config.enable_astm /\ ~config.enable_asd /\ ~config.enable_cn)
               => ~lastOp'.ret.is_remote_id
      ]_vars

\* C7 witness: a non-empty payload was parsed as not Remote ID while the
\* session was tracking an entry
C7_Witness ==
    /\ lastOp.op = "parse"
    /\ ~lastOp.ret.is_remote_id
    /\ lastOp.arg.payload # <<>>
    /\ config.enable_astm
    /\ uavs_ # EmptyMap

\* C8: every key of the session map is non-empty and is the id of the
\* record stored under it; update with an empty id returns false, changes
\* nothing and invokes no callback.
C8_OnlyNonEmptyIds ==
    /\ [](\A k \in DOMAIN uavs_ : k # <<>> /\ uavs_[k].id = k)
    /\ [][ (lastOp'.op = "update" /\ lastOp'.arg.id = <<>>) =>
             /\ lastOp'.ret = FALSE
             /\ uavs_' = uavs_
             /\ fired' = <<>>
         ]_vars

\* C8 witness: update was called with an empty id on a manager that tracks
\* an entry and has on_new registered
C8_Witness ==
    /\ lastOp.op = "update"
    /\ lastOp.arg.id = <<>>
    /\ uavs_ # EmptyMap
    /\ on_new_uav_

\* C9: an update of a tracked id leaves the stored rssi and last_seen equal
\* to the incoming ones and the stored message_count one above its value
\* before the call; an update of an untracked id stores the incoming record
\* as it is.
C9_UpdateRefreshes ==
    [][ (lastOp'.op = "update" /\ lastOp'.arg.id # <<>>) =>
          LET u == lastOp'.arg IN
            /\ u.id \in DOMAIN uavs_'
            /\ u.id \in DOMAIN uavs_ =>
                 /\ uavs_'[u.id].rssi = u.rssi
                 /\ uavs_'[u.id].last_seen = u.last_seen
                 /\ uavs_'[u.id].message_count
                      = uavs_[u.id].message_count + 1
            /\ u.id \notin DOMAIN uavs_ => uavs_'[u.id] = u
      ]_vars

\* C9 witness: a tracked entry was updated by a record with another rssi,
\* an older timestamp and another message_count
C9_Witness ==
    /\ lastOp.op = "update"
    /\ lastOp.ret = FALSE
    /\ lastOp.arg.id \in DOMAIN uavs_
    /\ lastOp.arg.rssi = -55
    /\ lastOp.arg.last_seen < now
    /\ uavs_[lastOp.arg.id].message_count = 2
    /\ lastOp.arg.message_count = 1

\* C10: with enable_deduplication = false the session map is empty after
\* every call, getActiveCount is 0 and no callback is ever invoked, while a
\* parse of a Basic ID advertisement still returns the decoded UAV: success,
\* the id of the message, the frame's rssi.
C10_NoDedupNoSession ==
    ~config.enable_deduplication =>
        /\ uavs_ = EmptyMap
        /\ SM_count(uavs_) = 0
        /\ fired = <<>>
        /\ lastOp.op = "getActiveCount" => lastOp.ret = 0
        /\ \A id \in Ids :
             (/\ lastOp.op = "parse"
              /\ config.enable_astm
              /\ lastOp.arg.payload = LegacyAdv(BasicIDMsg(id))) =>
                 /\ lastOp.ret.success
                 /\ lastOp.ret.is_remote_id
                 /\ lastOp.ret.uav.id = id
                 /\ lastOp.ret.uav.rssi = lastOp.arg.rssi
                 /\ lastOp.ret.uav.message_count = 1

\* C10 witness: with deduplication off and the callbacks registered, a
\* parse has returned a decoded UAV with its id
C10_Witness ==
    /\ ~config.enable_deduplication
    /\ on_new_uav_
    /\ lastOp.op = "parse"
    /\ lastOp.ret.success
    /\ lastOp.ret.uav.id = IdA

\* C11: clear() leaves the map empty and invokes no callback, on_timeout
\* included; the callback slots are as they were before it, so the first
\* update of an id that clear() removed is accepted as a new entry and, when
\* on_new is registered, invokes on_new with the installed record.
C11_ClearSilent ==
    /\ [][ lastOp'.op = "clear" =>
             /\ DOMAIN uavs_' = {}
             /\ fired' = <<>>
             /\ on_new_uav_' = on_new_uav_
             /\ on_uav_update_' = on_uav_update_
             /\ on_uav_timeout_' = on_uav_timeout_
         ]_vars
    /\ [][ (lastOp'.op = "update" /\ lastOp'.arg.id \in stats.dropped
             /\ lastOp'.arg.id \notin DOMAIN uavs_) =>
             /\ lastOp'.ret = TRUE
             /\ lastOp'.arg.id \in DOMAIN uavs_'
             /\ fired' = (IF on_new_uav_
                          THEN <<Invocation("on_new", lastOp'.arg, uavs_')>>
                          ELSE <<>>)
         ]_vars

\* C11 witness: an id that clear() had removed was updated again and on_new
\* was invoked for it
C11_Witness ==
    /\ lastOp.op = "update"
    /\ lastOp.arg.id \in stats.dropped
    /\ lastOp.ret = TRUE
    /\ Len(fired) = 1
    /\ fired[1].cb = "on_new"
    /\ fired[1].uav.id = lastOp.arg.id

\* C12: the sequence getActiveUAVs() returns holds one element per tracked
\* id and nothing else, each element the record stored under its id, in the
\* order of last_seen from the most recent to the oldest.
C12_SnapshotSorted ==
    lastOp.op = "getActiveUAVs" =>
        /\ Len(lastOp.ret) = Cardinality(DOMAIN uavs_)
        /\ Range(lastOp.ret) = {uavs_[id] : id \in DOMAIN uavs_}
        /\ \A id \in DOMAIN uavs_ :
             Cardinality({i \in 1..Len(lastOp.ret) :
                            lastOp.ret[i].id = id}) = 1
        /\ \A i \in 1..(Len(lastOp.ret) - 1) :
             lastOp.ret[i].last_seen >= lastOp.ret[i + 1].last_seen

\* C12 witness: getActiveUAVs returned two records seen at different
\* instants
C12_Witness ==
    /\ lastOp.op = "getActiveUAVs"
    /\ Len(lastOp.ret) = 2
    /\ lastOp.ret[1].last_seen > lastOp.ret[2].last_seen

\* C13: parsing a payload that holds the Remote ID envelope with fewer
\* bytes after it than one message, the six bytes 1E 16 FA FF 00 02 among
\* them, returns is_remote_id = true and success = false.
C13_TruncatedIsRemoteId ==
    (lastOp.op = "parse" /\ lastOp.arg.payload \in TruncatedPayloads) =>
        /\ lastOp.ret.is_remote_id
        /\ ~lastOp.ret.success

\* C14: parsing the BT legacy payload 1E 16 FA FF 00 followed by one Basic
\* ID message returns is_remote_id = true, success = true, protocol
\* ASTM F3411 and the trimmed id of the message, and the id is tracked in
\* the session afterwards.
C14_SeedBasicIdParses ==
    \A id \in Ids :
        (lastOp.op = "parse"
           /\ lastOp.arg = Frame(SeedAdv(BasicIDMsg(id)), TR_BT_LEGACY)) =>
            /\ lastOp.ret.is_remote_id
            /\ lastOp.ret.success
            /\ lastOp.ret.protocol = PROTO_ASTM_F3411
            /\ lastOp.ret.uav.id = id
            /\ id \in DOMAIN uavs_

\* C15: parsing a BT5 extended advertisement whose AD structure with the
\* tuple 16 FA FF, a counter byte and a complete message follows a two-byte
\* extended header succeeds with the id of the message and transport
\* BT_EXTENDED.
C15_ExtendedAnywhere ==
    \A h \in ExtHeaders, id \in Ids :
        (lastOp.op = "parse"
           /\ lastOp.arg = Frame(ExtendedAdv(h, BasicIDMsg(id)),
                                 TR_BT_EXTENDED)) =>
            /\ lastOp.ret.success
            /\ lastOp.ret.uav.id = id
            /\ lastOp.ret.uav.transport = TR_BT_EXTENDED

\* C16: a payload parsed with the transport tag BT_LEGACY that decodes
\* successfully is returned with uav.transport = BT_LEGACY.
C16_LegacyTransportKept ==
    (lastOp.op = "parse" /\ lastOp.arg.transport = TR_BT_LEGACY
       /\ lastOp.ret.success) =>
        lastOp.ret.uav.transport = TR_BT_LEGACY

\* C17: decoding a Message Pack built for message size 25 and count C with
\* its C sub-messages present succeeds, applies every sub-message (the id
\* of the Basic ID, a valid location for the Location message) and leaves
\* message_count increased by C.
C17_PackDecodesAll ==
    \A msgs \in { <<BasicIDMsg(IdA)>>, <<BasicIDMsg(IdA), LocationMsg>> } :
        (lastOp.op = "decode"
           /\ lastOp.arg = LegacyAdv(PackMsg(MESSAGE_SIZE, Len(msgs), msgs))) =>
            /\ lastOp.ret.success
            /\ lastOp.ret.uav.id = IdA
            /\ Len(msgs) = 2 => lastOp.ret.uav.location.valid
            /\ lastOp.ret.uav.message_count = Len(msgs)

\* C18: decoding a Message Pack built for a message size other than 25, or
\* whose count times 25 reaches past the end of the buffer, fails and leaves
\* message_count as it was.
C18_BadPackRejected ==
    \A size \in PackSizes, count \in 0..MaxPackCount, msgs \in SubMsgLists :
        (lastOp.op = "decode"
           /\ lastOp.arg = LegacyAdv(PackMsg(size, count, msgs))
           /\ (size # MESSAGE_SIZE
                 \/ 2 + count * MESSAGE_SIZE
                      > Len(PackMsg(size, count, msgs)))) =>
            /\ ~lastOp.ret.success
            /\ lastOp.ret.uav.message_count = 0

\* C18 witness: a pack built for message size 10 with its one sub-message,
\* and a pack built for size 25 that declares one sub-message more than it
\* holds, have been decoded and rejected
C18_Witness ==
    /\ lastOp.op = "decode"
    /\ lastOp.arg \in { LegacyAdv(PackMsg(10, 1, <<BasicIDMsg(IdA)>>)),
                         LegacyAdv(PackMsg(MESSAGE_SIZE, 2,
                                           <<BasicIDMsg(IdA)>>)) }
    /\ ~lastOp.ret.success

\* C19: in a Message Pack whose first sub-message has an unknown type, the
\* sub-messages after it are still decoded into the UAVObject.
C19_PackBestEffort ==
    \A msgs \in { <<UnknownTypeMsg, BasicIDMsg(IdA)>>,
                   <<BasicIDMsg(IdA), UnknownTypeMsg, LocationMsg>> } :
        (lastOp.op = "decode"
           /\ lastOp.arg = LegacyAdv(PackMsg(MESSAGE_SIZE, Len(msgs), msgs))) =>
            /\ lastOp.ret.uav.id = IdA
            /\ Len(msgs) = 3 => lastOp.ret.uav.location.valid

\* ---------------------------------------------------------------------
\* C20: parse of any payload takes a number of steps bounded by the
\* payload's length (here: at most nine loop iterations and message decodes
\* per payload byte), reads no byte at an index at or beyond the payload's
\* length, and an AD structure whose length is 0 or reaches past the end
\* of the payload is the last one its AD scan looks at.
\* ---------------------------------------------------------------------
C20_ParseBounded ==
    lastOp.op = "parse" =>
        LET p == lastOp.arg.payload
            tr == stats.trace
        IN  /\ Len(tr) <= 9 * Len(p)
            /\ \A k \in 1..Len(tr) : \A r \in tr[k].reads : r < Len(p)
            /\ \A k \in 1..(Len(tr) - 1) :
                 /\ tr[k].loop \in {"isRemoteID", "findODIDData", "decodeLegacy"}
                 /\ \/ At(p, tr[k].i) = 0
                    \/ tr[k].i + At(p, tr[k].i) >= Len(p)
                 => tr[k + 1].loop # tr[k].loop

\* C20 witness: a parse of a Remote ID payload in which decodeLegacy handed
\* a message to decodeMessage and then stopped its scan at a later AD
\* structure whose non-zero length reaches past the end of the payload
C20_Witness ==
    /\ lastOp.op = "parse"
    /\ lastOp.ret.is_remote_id
    /\ \E k \in 1..Len(stats.trace) :
         LET e == stats.trace[k]
             p == lastOp.arg.payload
         IN  /\ e.loop = "decodeLegacy"
             /\ e.i > 0
             /\ At(p, e.i) # 0
             /\ e.i + At(p, e.i) >= Len(p)
             /\ k = Len(stats.trace)
             /\ \E j \in 1..(k - 1) : stats.trace[j].loop = "decodeMessage"

\* ---------------------------------------------------------------------
\* C21: with enable_astm and enable_asd both set, a frame that matches the
\* shared Bluetooth envelope and decodes is reported with protocol
\* ASTM_F3411, in the ParseResult and in its UAVObject, never ASD_STAN.
\* ---------------------------------------------------------------------
C21_AstmWins ==
    /\ lastOp.op = "parse"
    /\ config.enable_astm
    /\ config.enable_asd
    /\ ASTM_isRemoteID(lastOp.arg.payload)
    /\ lastOp.ret.success
    => /\ lastOp.ret.protocol = PROTO_ASTM_F3411
       /\ lastOp.ret.uav.protocol = PROTO_ASTM_F3411

\* C21 witness: a parser with both switches set has decoded a Bluetooth
\* frame that carries a Basic ID
C21_Witness ==
    /\ lastOp.op = "parse"
    /\ config.enable_astm
    /\ config.enable_asd
    /\ ASTM_isRemoteID(lastOp.arg.payload)
    /\ lastOp.ret.success
    /\ lastOp.ret.uav.id # <<>>

\* ---------------------------------------------------------------------
\* C22: is_remote_id is set only through a decoder whose switch is set.
\* With all three switches off every parse returns is_remote_id = false
\* and success = false; with enable_asd alone a decoded Bluetooth frame is
\* reported with protocol ASD_STAN.
\* ---------------------------------------------------------------------
C22_OnlyEnabledProtocols ==
    lastOp.op = "parse" =>
        LET p == lastOp.arg.payload
            r == lastOp.ret
        IN  /\ r.is_remote_id =>
                 \/ config.enable_astm /\ ASTM_isRemoteID(p)
                 \/ config.enable_astm /\ WiFi_isRemoteID(p)
                 \/ config.enable_asd /\ ASD_isRemoteID(p)
                 \/ config.enable_cn /\ CN_isRemoteID(p)
            /\ r.success => r.is_remote_id
            /\ ~config.enable_astm /\ ~config.enable_asd /\ ~config.enable_cn
                 => ~r.is_remote_id /\ ~r.success
            /\ ~config.enable_astm /\ config.enable_asd /\ r.success
                 => r.protocol = PROTO_ASD_STAN

\* C22 witness: a parser with enable_asd alone has decoded a Bluetooth frame
C22_Witness ==
    /\ lastOp.op = "parse"
    /\ ~config.enable_astm
    /\ config.enable_asd
    /\ ~config.enable_cn
    /\ lastOp.ret.success
    /\ lastOp.ret.protocol = PROTO_ASD_STAN

\* ---------------------------------------------------------------------
\* C25: when the time since the id's previous history entry is not strictly
\* between 0 and max_timestamp_gap_ms, analyze emits no anomaly of the
\* kinematic rules (speed_impossible for horizontal speed or acceleration,
\* altitude_spike, position_jump), whatever the two positions are.
\* ---------------------------------------------------------------------
C25_GapSuppressesKinematics ==
    lastOp.op = "analyze" =>
        LET id == lastOp.arg.uav.id
            before == stats.prev.history_
        IN  /\ id \in DOMAIN before
            /\ before[id].timestamps # <<>>
            /\ LET dt == now - before[id].timestamps[Len(before[id].timestamps)]
               IN  ~(dt > 0 /\ dt < config.max_timestamp_gap_ms * TicksPerMs)
            => \A i \in 1..Len(lastOp.ret) :
                 lastOp.ret[i].type \notin
                     {"SPEED_IMPOSSIBLE", "ALTITUDE_SPIKE", "POSITION_JUMP"}

\* C25 witness: a located record analysed max_timestamp_gap_ms or more
\* after the id's previous entry, 2000 m and 60 m of altitude away from it
C25_Witness ==
    /\ lastOp.op = "analyze"
    /\ lastOp.arg.uav.location.valid
    /\ lastOp.arg.uav.id \in DOMAIN stats.prev.history_
    /\ LET h == stats.prev.history_[lastOp.arg.uav.id]
           n == Len(h.timestamps)
       IN  /\ n > 0
           /\ now - h.timestamps[n] >= config.max_timestamp_gap_ms * TicksPerMs
           /\ h.positions[n].latitude = 0
           /\ lastOp.arg.uav.location.latitude = 20
           /\ lastOp.arg.uav.location.altitude_geo = 60

\* ---------------------------------------------------------------------
\* C26: clear() leaves no history for any id and every counter at zero;
\* clearUAV(id) removes the history of id and leaves the history of every
\* other id as it was; the first analyze of an id after its history was
\* cleared returns no anomaly and leaves a history of just that message.
\* ---------------------------------------------------------------------
C26_ClearScopes ==
    /\ lastOp.op = "clear" =>
         /\ DOMAIN stats.det.history_ = {}
         /\ DOMAIN stats.det.anomaly_counts_ = {}
         /\ stats.det.total_anomalies_ = 0
    /\ lastOp.op = "clearUAV" =>
         /\ lastOp.arg \notin DOMAIN stats.det.history_
         /\ \A other \in DOMAIN stats.prev.history_ \ {lastOp.arg} :
              /\ other \in DOMAIN stats.det.history_
              /\ stats.det.history_[other] = stats.prev.history_[other]
    /\ lastOp.op = "analyze" /\ stats.after_clear =>
         LET uav == lastOp.arg.uav
             h == stats.det.history_[uav.id]
         IN  /\ lastOp.ret = <<>>
             /\ Len(h.positions) = (IF uav.location.valid THEN 1 ELSE 0)
             /\ Len(h.timestamps) = Len(h.positions)
             /\ Len(h.rssi_history) = Len(h.positions)
             /\ Len(h.message_hashes) = Len(h.positions)
             /\ \A other \in DOMAIN stats.prev.history_ \ {uav.id} :
                  stats.det.history_[other] = stats.prev.history_[other]

\* C26 witness: the first analyze of an id after clearUAV, of a record 2000 m
\* from the position its history held, while the other id keeps a history
C26_Witness ==
    /\ lastOp.op = "analyze"
    /\ stats.after_clear
    /\ lastOp.arg.uav.location.valid
    /\ lastOp.arg.uav.location.latitude = 20
    /\ \E other \in DOMAIN stats.det.history_ \ {lastOp.arg.uav.id} :
         stats.det.history_[other].positions # <<>>

C24_SeedReplayByThird ==
    /\ lastOp.op = "analyze"
    /\ config = DefaultAnomalyConfig
    /\ stats.rec = BasicIdRecord(IdA)
    /\ stats.calls >= 3
    => stats.replays >= 1

\* ---------------------------------------------------------------------
\* C27: addPosition with loc.valid = false changes nothing: the map of
\* trajectories after the call is the map before it, so no trajectory is
\* created and no raw or smoothed point is appended.
\* ---------------------------------------------------------------------
C27_InvalidIgnored ==
    lastOp.op = "addPosition" /\ ~lastOp.arg.location.valid =>
        /\ stats.ta = stats.prev
        /\ ~lastOp.ret.appended

\* C27 witness: addPosition without a valid location for an id that has no
\* trajectory, while the other id has a history of points
C27_Witness ==
    /\ lastOp.op = "addPosition"
    /\ ~lastOp.arg.location.valid
    /\ lastOp.arg.uav_id \notin DOMAIN stats.prev
    /\ \E other \in DOMAIN stats.prev : stats.prev[other].points # <<>>

\* ---------------------------------------------------------------------
\* C28: for every id and every configured max_history_points, the raw FIFO
\* and the smoothed FIFO hold at most max_history_points points after every
\* addPosition.
\* ---------------------------------------------------------------------
C28_FifosBounded ==
    \A id \in DOMAIN stats.ta :
        /\ Len(stats.ta[id].points) <= config.max_history_points
        /\ Len(stats.ta[id].smoothed_points) <= config.max_history_points

\* ---------------------------------------------------------------------
\* C29: when the point just appended is the 10th, 20th, ... of its
\* trajectory, the statistics and the cached pattern are those of the points
\* now stored.
\* ---------------------------------------------------------------------
C29_EveryTenthRecomputes ==
    /\ lastOp.op = "addPosition"
    /\ lastOp.ret.appended
    /\ stats.appended[lastOp.arg.uav_id] % 10 = 0
    => LET traj == stats.ta[lastOp.arg.uav_id]
       IN  /\ lastOp.ret.recomputed
           /\ traj.stats = calculateStats(traj)
           /\ traj.pattern = analyzePattern(config, traj)

\* ---------------------------------------------------------------------
\* C30 as stated: the confidence of predictPosition(id, dt) is 0 for an id
\* with fewer than two points and max(0, 1 - dt/30 s) otherwise, and it
\* does not grow with the horizon.
\* ---------------------------------------------------------------------
C30_AsStated ==
    /\ lastOp.op = "predictPosition" =>
         LET id == lastOp.arg.uav_id
             dt == lastOp.arg.time_ahead_ms
             few == id \notin DOMAIN stats.ta \/ Len(stats.ta[id].points) < 2
         IN  lastOp.ret.confidence =
                 (IF few THEN 0
                  ELSE IF dt < 30000 THEN 30000 - dt ELSE 0)
    /\ \A id \in Ids, d1 \in Horizons, d2 \in Horizons :
         d1 <= d2 =>
             predictPosition(stats.ta, id, d2, now).confidence
                 <= predictPosition(stats.ta, id, d1, now).confidence

\* ---------------------------------------------------------------------
\* C30: the confidence of predictPosition(id, dt) is 0 for an id with fewer
\* than two points, 0.5 when the last two points carry the same timestamp
\* and max(0, 1 - dt/30 s) otherwise; for a fixed trajectory it does not
\* grow with the horizon.
\* ---------------------------------------------------------------------
C30_ConfidenceDecays ==
    /\ lastOp.op = "predictPosition" =>
         LET id == lastOp.arg.uav_id
             dt == lastOp.arg.time_ahead_ms
             few == id \notin DOMAIN stats.ta \/ Len(stats.ta[id].points) < 2
             n == Len(stats.ta[id].points)
         IN  lastOp.ret.confidence =
                 (IF few THEN 0
                  ELSE IF stats.ta[id].points[n].timestamp
                          = stats.ta[id].points[n - 1].timestamp THEN 15000
                  ELSE IF dt < 30000 THEN 30000 - dt ELSE 0)
    /\ \A id \in Ids, d1 \in Horizons, d2 \in Horizons :
         d1 <= d2 =>
             predictPosition(stats.ta, id, d2, now).confidence
                 <= predictPosition(stats.ta, id, d1, now).confidence

\* C30 witness: a prediction 45 s ahead from two points of different
\* instants, with confidence 0
C30_Witness ==
    /\ lastOp.op = "predictPosition"
    /\ lastOp.arg.time_ahead_ms = 45000
    /\ lastOp.arg.uav_id \in DOMAIN stats.ta
    /\ LET points == stats.ta[lastOp.arg.uav_id].points
           n == Len(points)
       IN  /\ n >= 2
           /\ points[n].timestamp > points[n - 1].timestamp
    /\ lastOp.ret.confidence = 0

\* ---------------------------------------------------------------------
\* C31: a beacon is decoded only from a Vendor-Specific IE with the ASTM
\* OUI and vendor type 0x0D: a record decoded over the beacon path never
\* comes from the message of an IE with that OUI and another fourth byte.
\* ---------------------------------------------------------------------
C31_VendorTypeChecked ==
    /\ lastOp.op = "parse"
    /\ lastOp.ret.success
    /\ lastOp.ret.uav.transport = TR_WIFI_BEACON
    => lastOp.ret.uav.id # IdB

C33_HistoryBounded ==
    /\ \A id \in DOMAIN stats.det.history_ :
         LET h == stats.det.history_[id]
         IN  /\ Len(h.positions) <= 100
             /\ Len(h.rssi_history) = Len(h.positions)
             /\ Len(h.timestamps) = Len(h.positions)
             /\ Len(h.message_hashes) = Len(h.positions)
    /\ /\ lastOp.op = "analyze"
       /\ lastOp.arg.uav.location.valid
       /\ lastOp.arg.uav.id \in DOMAIN stats.prev.history_
       => LET before == stats.prev.history_[lastOp.arg.uav.id]
              after == stats.det.history_[lastOp.arg.uav.id]
          IN  Len(before.positions) = 100 =>
                /\ after.positions =
                     Append(Tail(before.positions), lastOp.arg.uav.location)
                /\ after.rssi_history =
                     Append(Tail(before.rssi_history), lastOp.arg.rssi)
                /\ after.timestamps = Append(Tail(before.timestamps), now)
                /\ after.message_hashes =
                     Append(Tail(before.message_hashes),
                            hashMessage(lastOp.arg.uav))

\* C33 witness: an analyze on a history of 100 entries whose oldest entry
\* differs from the second oldest in position and signal strength
C33_Witness ==
    /\ lastOp.op = "analyze"
    /\ lastOp.arg.uav.location.valid
    /\ lastOp.arg.uav.id \in DOMAIN stats.prev.history_
    /\ LET before == stats.prev.history_[lastOp.arg.uav.id]
       IN  /\ Len(before.positions) = 100
           /\ before.positions[1] # before.positions[2]
           /\ before.rssi_history[1] # before.rssi_history[2]
    /\ Len(stats.det.history_[lastOp.arg.uav.id].positions) = 100

\* ---------------------------------------------------------------------
\* C34: every read, byte copy or skip of a BitReader, whatever the count,
\* either stays within the buffer (it consumes exactly what was asked and
\* asks for no byte past the end) or fails with out_of_range leaving the
\* cursor in the buffer; the cursor never exceeds the buffer length and
\* remaining() is the distance from the cursor to the end.
\* ---------------------------------------------------------------------
C34_ReadsStayInBuffer ==
    /\ stats.reader.pos_ <= stats.reader.length_
    /\ BR_remaining(stats.reader) = stats.reader.length_ - stats.reader.pos_
    /\ lastOp.op \in {"readU8", "readU16", "readU32", "readBytes", "skip"} =>
         \/ /\ lastOp.ret.status = "ok"
            /\ ~lastOp.ret.overrun
            /\ stats.prev.pos_ + lastOp.arg <= stats.prev.length_
            /\ stats.reader.pos_ = stats.prev.pos_ + lastOp.arg
         \/ /\ lastOp.ret.status = "out_of_range"
            /\ stats.prev.pos_ + lastOp.arg > stats.prev.length_
            /\ stats.reader = stats.prev
    /\ lastOp.op = "readBits" =>
         \/ lastOp.ret.status = "ok" /\ Len(lastOp.ret.value) = lastOp.arg
         \/ lastOp.ret.status = "out_of_range"
         \/ lastOp.ret.status = "invalid_argument" /\ lastOp.arg > 32

\* ---------------------------------------------------------------------
\* C35: across an update of a tracked id the stored last_seen does not
\* decrease: a record with a timestamp older than the stored one does not
\* move last_seen backwards.
\* ---------------------------------------------------------------------
C35_LastSeenMonotonic ==
    [][\A id \in DOMAIN uavs_ \cap DOMAIN uavs_' :
          uavs_'[id].last_seen >= uavs_[id].last_seen]_vars

\* ---------------------------------------------------------------------
\* C36: at the moment on_timeout is invoked for an id, the entry is
\* already gone from the session map: the map a getUAV(id) or count()
\* made inside the callback would read does not hold the id.
\* ---------------------------------------------------------------------
C36_RemovedBeforeTimeoutCallback ==
    \A i \in 1..Len(fired) :
        fired[i].cb = "on_timeout" =>
            fired[i].uav.id \notin DOMAIN fired[i].map

\* ---------------------------------------------------------------------
\* C37: a parse() that returns success = false, the case of a matched
\* envelope whose message decode failed included, leaves the session map
\* exactly as it was and invokes no lifecycle callback.
\* ---------------------------------------------------------------------
C37_FailedParseLeavesSession ==
    [][(lastOp'.op = "parse" /\ ~lastOp'.ret.success)
          => (uavs_' = uavs_ /\ fired' = <<>>)]_vars

\* C37 witness: a parse has failed on a frame whose envelope matched, with
\* deduplication on, a drone tracked and the three callbacks set
C37_Witness ==
    /\ lastOp.op = "parse"
    /\ ~lastOp.ret.success
    /\ lastOp.ret.is_remote_id
    /\ config.enable_deduplication
    /\ uavs_ # EmptyMap
    /\ on_new_uav_ /\ on_uav_update_ /\ on_uav_timeout_

\* ---------------------------------------------------------------------
\* C38: once cleanup() or clear() has removed an id, the next accepted
\* update for that id is a first sighting: update returns true, on_new is
\* invoked and on_update is not, and the stored record is the incoming
\* record as it came, with no field and no message_count of the removed
\* record.
\* ---------------------------------------------------------------------
C38_RemovedIdIsNew ==
    (lastOp.op = "update" /\ lastOp.arg.id \in DOMAIN stats.was_gone) =>
        /\ lastOp.ret = TRUE
        /\ lastOp.arg.id \in DOMAIN uavs_
        /\ uavs_[lastOp.arg.id] = lastOp.arg
        /\ fired = IF on_new_uav_
                   THEN <<Invocation("on_new", lastOp.arg, uavs_)>>
                   ELSE <<>>

\* C38 witness: with on_new and on_update set, an update has arrived for
\* an id that cleanup() or clear() had removed, the removed record differing
\* from the incoming one in message_count and in its location
C38_Witness ==
    /\ lastOp.op = "update"
    /\ lastOp.arg.id \in DOMAIN stats.was_gone
    /\ on_new_uav_ /\ on_uav_update_
    /\ stats.was_gone[lastOp.arg.id].message_count # lastOp.arg.message_count
    /\ stats.was_gone[lastOp.arg.id].location # lastOp.arg.location

\* the ids the threads of the scenario use
UsedIds == {stats.ids[t] : t \in Threads}

\* ---------------------------------------------------------------------
\* C39: when the threads call update concurrently without a lock, each
\* with an id of its own, then once all have finished on_new has been
\* invoked exactly once per id and on_update once for every other update.
\* ---------------------------------------------------------------------
C39_OneNewPerId ==
    (lastOp.op = "join" /\ Cardinality(UsedIds) = NumThreads) =>
        /\ \A id \in UsedIds : stats.news[id] = 1
        /\ stats.updates = NumThreads * UpdatesPerThread - NumThreads

\* ---------------------------------------------------------------------
\* C40: once the concurrent unlocked update calls have all finished,
\* count() is the number of distinct ids that were updated and getUAV finds
\* each of them, whether the threads used distinct ids or all the same id.
\* ---------------------------------------------------------------------
C40_CountIsDistinctIds ==
    lastOp.op = "join" =>
        /\ lastOp.ret.count = Cardinality(UsedIds)
        /\ UsedIds \subseteq lastOp.ret.found


====
